---- MODULE Spec2Model ----
(***************************************************************************)
(* RentalEscrow (contracts/RentalEscrow.sol) with the SoulboundToken gate  *)
(* (contracts/SoulboundToken.sol) it consults, and the backend service's   *)
(* releaseToLender (backend/src/services/escrow.service.ts).               *)
(*                                                                         *)
(* One action is one transaction.  A transaction that reverts changes      *)
(* nothing but the record of the last call (`last`), which stands for the  *)
(* receipt the caller sees.  The ledger keeps no per-agreement balance:    *)
(* `received` and `sent` are the logs of the value accepted by deposit and *)
(* of the value (and fee) moved by releaseToLender / resolveDispute, the   *)
(* information the contract's events carry.                                *)
(***************************************************************************)
EXTENDS Integers, Sequences, FiniteSets, TLC

\* ---------------------------------------------------------------- bounds
MaxEscrows == 2
MaxTokens == 2
MaxRequests == 2
MaxPending == 2
MaxPayments == 2
MaxCallbacks == 3
InitBalance == 2000000

\* ------------------------------------------------------ program constants
MIN_RENTAL_DURATION == 3600
MAX_RENTAL_DURATION == 31536000
DISPUTE_TIMEOUT == 604800
InitialFeePercentage == 250
MaxFeePercentage == 1000
FeeDenominator == 10000

\* -------------------------------------------------------------- addresses
Zero == "0x0"
Owner == "owner"
Ledger == "escrow"
Users == {"owner", "alice", "bob"}
Wallet == "owner"

\* ------------------------------------------------------------ input sets
\* block.timestamp values: creation, endTime of a MIN_RENTAL_DURATION rental
\* created at 0, the last instant of its dispute window, the first after it.
Times ==
  {0, MIN_RENTAL_DURATION, MIN_RENTAL_DURATION + DISPUTE_TIMEOUT,
   MIN_RENTAL_DURATION + DISPUTE_TIMEOUT + 1}

\* createEscrow argument vectors: rentalAmount, securityDeposit, duration,
\* itemDescription.
TestItem ==
  [rentalAmount |-> 1000000, securityDeposit |-> 500000,
   duration |-> MIN_RENTAL_DURATION, itemDescription |-> "Test item"]

\* a rental of 30 with no security deposit and no description: its fee at
\* 250 bps rounds down to 0
SmallItem ==
  [rentalAmount |-> 30, securityDeposit |-> 0,
   duration |-> MIN_RENTAL_DURATION, itemDescription |-> ""]

CreateParams ==
  { TestItem,
    [rentalAmount |-> 0, securityDeposit |-> 500000,
     duration |-> MIN_RENTAL_DURATION, itemDescription |-> "Test item"],
    [rentalAmount |-> 30, securityDeposit |-> 0,
     duration |-> MIN_RENTAL_DURATION - 1, itemDescription |-> "Test item"],
    [rentalAmount |-> 30, securityDeposit |-> 0,
     duration |-> MAX_RENTAL_DURATION + 1, itemDescription |-> "Test item"] }

Ids == 0 .. MaxEscrows

\* releaseToLender requests the backend service is handling
ReqIds == 1 .. MaxRequests

VARIABLES
  now,                   \* block.timestamp
  verifiedUsers,         \* SoulboundToken.verifiedUsers
  tokenIdCounter,        \* SoulboundToken._tokenIdCounter
  owners,                \* ERC721._owners: holder of each token id, or Zero
  tokenToUser,           \* SoulboundToken.tokenToUser
  userToToken,           \* SoulboundToken.userToToken
  tokenPaused,           \* Pausable._paused of SoulboundToken
  escrows,               \* RentalEscrow.escrows, on the ids below the counter
  escrowIdCounter,       \* RentalEscrow._escrowIdCounter
  userEscrows,           \* RentalEscrow.userEscrows
  collectedFees,         \* RentalEscrow.collectedFees
  platformFeePercentage, \* RentalEscrow.platformFeePercentage
  paused,                \* Pausable._paused of RentalEscrow
  balance,               \* native balance of every account and of the ledger
  received,              \* per id: value accepted by deposit
  sent,                  \* per id: the transfers made, <<to, amount>>
  feeAccrued,            \* per id: fee added to collectedFees
  last,                  \* the last transaction: op, caller, id, err
  requests,              \* service: the releaseToLender requests in progress
  mempool,               \* transactions sent to the ledger, mined or not yet
  feeCalc,               \* a fee computation: its arguments and its result
  answer,                \* service: the outcome of its last createEscrow or makeDeposit
  payments,              \* payment server: the rows of the payments table
  callbacks              \* payment server: the M-Pesa callbacks it has answered

\* the identity token's storage
sbtVars ==
  <<verifiedUsers, tokenIdCounter, owners, tokenToUser, userToToken,
    tokenPaused>>

\* what is kept off the two contracts
backendVars == <<answer, payments, callbacks>>

offLedger == <<requests, mempool, feeCalc, backendVars>>

vars ==
  <<now, sbtVars, escrows, escrowIdCounter, userEscrows, collectedFees,
    platformFeePercentage, paused, balance, received, sent, feeAccrued, last,
    offLedger>>

ledgerVars ==
  <<escrows, escrowIdCounter, userEscrows, collectedFees,
    platformFeePercentage, paused, balance, received, sent, feeAccrued>>

Existing == 0 .. (escrowIdCounter - 1)

Result(op, caller, id, err) ==
  [op |-> op, caller |-> caller, id |-> id, err |-> err]

\* No transaction is awaiting its receipt.
NoReceipt == Result("none", Zero, 0, "ok")

Idle == last = NoReceipt

\* a failure path that returns without undoing a debit of the caller
Revert_KeepsValue(op, caller, id, err) ==
  /\ last' = [op |-> op, caller |-> caller, id |-> id, err |-> err]
  /\ balance' = IF op = "deposit" /\ balance[caller] > 0
                THEN [balance EXCEPT ![caller] = @ - 1, ![Ledger] = @ + 1]
                ELSE balance
  /\ UNCHANGED <<now, sbtVars, escrows, escrowIdCounter,
                 userEscrows, collectedFees, platformFeePercentage, paused,
                 received, sent, feeAccrued>>

\* A reverted transaction: nothing persists but the receipt.
Revert(op, caller, id, err) ==
  /\ last' = Result(op, caller, id, err)
  /\ UNCHANGED <<now, sbtVars, ledgerVars>>

\* token ids the model can issue
TokenIds == 0 .. (MaxTokens - 1)

\* no fee computation has been asked for
NoFeeCalc == [amount |-> 0, bps |-> 0, fee |-> -1]

\* the service has answered no request
NoAnswer ==
  [op |-> "none", address |-> Zero, lender |-> Zero, escrowId |-> 0,
   error |-> "none"]

\* The two contracts as their constructors leave them.
Deployed ==
  /\ now = 0
  /\ verifiedUsers = [a \in Users |-> FALSE]
  /\ tokenIdCounter = 0
  /\ owners = [t \in TokenIds |-> Zero]
  /\ tokenToUser = [t \in TokenIds |-> Zero]
  /\ userToToken = [a \in Users |-> 0]
  /\ tokenPaused = FALSE
  /\ mempool = <<>>
  /\ escrows = <<>>
  /\ escrowIdCounter = 0
  /\ userEscrows = [a \in Users |-> <<>>]
  /\ collectedFees = 0
  /\ platformFeePercentage = InitialFeePercentage
  /\ paused = FALSE
  /\ balance = [a \in Users \cup {Ledger} |-> IF a = Ledger THEN 0 ELSE InitBalance]
  /\ received = <<>>
  /\ sent = <<>>
  /\ feeAccrued = <<>>
  /\ last = NoReceipt
  /\ requests =
       [r \in ReqIds |->
          [pc |-> "idle", lenderAddress |-> Zero, escrowId |-> 0,
           err |-> "none", result |-> "none"]]
  /\ answer = NoAnswer
  /\ payments = <<>>
  /\ callbacks = <<>>

Init == Deployed /\ feeCalc = NoFeeCalc

\* Escrow states, in the order of the enum.
EscrowStates ==
  {"Created", "Deposited", "Active", "Completed", "Disputed", "Refunded",
   "Cancelled"}

\* escrows[escrowId]
Escrow(id) == escrows[id + 1]

\* escrow.state = s, written into the stored agreement
WithState(id, s) == [escrows EXCEPT ![id + 1].state = s]

\* the fee at the rate the ledger was deployed with, whatever the rate is now
PlatformFee_InitialRate(rentalAmount, bps) ==
  (rentalAmount * InitialFeePercentage) \div FeeDenominator

\* the fee rounded up instead of down
PlatformFee_RoundsUp(rentalAmount, bps) ==
  (rentalAmount * bps + FeeDenominator - 1) \div FeeDenominator

\* (rentalAmount * platformFeePercentage) / 10000, integer division
\* the fee taken as a percentage instead of in basis points
PlatformFee_Percent(rentalAmount, bps) == (rentalAmount * bps) \div 100

PlatformFee(rentalAmount, bps) == (rentalAmount * bps) \div FeeDenominator

\* ------------------------------------------------------- SoulboundToken
\* mintTo without the check that the address is not verified yet
MintToErr_NoDuplicateCheck(caller, to) ==
  IF caller # Owner THEN "OwnableUnauthorizedAccount"
  ELSE IF tokenPaused THEN "EnforcedPause"
  ELSE IF to = Zero THEN "InvalidAddress"
  ELSE "ok"

\* mintTo: onlyOwner, whenNotPaused, then the checks of its body
MintToErr(caller, to) ==
  IF caller # Owner THEN "OwnableUnauthorizedAccount"
  ELSE IF tokenPaused THEN "EnforcedPause"
  ELSE IF to = Zero THEN "InvalidAddress"
  ELSE IF verifiedUsers[to] THEN "UserAlreadyVerified"
  ELSE "ok"

MintTo(caller, to) ==
  LET err == MintToErr(caller, to) IN
  /\ Idle
  /\ IF err # "ok" THEN Revert("mintTo", caller, 0, err)
     ELSE /\ tokenIdCounter < MaxTokens
          /\ tokenIdCounter' = tokenIdCounter + 1
          /\ verifiedUsers' = [verifiedUsers EXCEPT ![to] = TRUE]
          /\ tokenToUser' = [tokenToUser EXCEPT ![tokenIdCounter] = to]
          /\ userToToken' = [userToToken EXCEPT ![to] = tokenIdCounter]
          /\ owners' = [owners EXCEPT ![tokenIdCounter] = to]
          /\ last' = Result("mintTo", caller, tokenIdCounter, "ok")
          /\ UNCHANGED <<now, tokenPaused, ledgerVars>>

\* soulboundToken.isVerified(user); the zero address is never verified
isVerified(user) == user # Zero /\ verifiedUsers[user]

\* revokeVerification(user): onlyOwner, then the verifiedUsers check
RevokeVerificationErr(caller, user) ==
  IF caller # Owner THEN "OwnableUnauthorizedAccount"
  ELSE IF ~isVerified(user) THEN "UserNotVerified"
  ELSE "ok"

\* revokeVerification handing the token id back to the counter
RevokeVerification_ReusesId(caller, user) ==
  /\ Idle
  /\ IF RevokeVerificationErr(caller, user) # "ok"
     THEN Revert("revokeVerification", caller, 0,
                 RevokeVerificationErr(caller, user))
     ELSE /\ verifiedUsers' = [verifiedUsers EXCEPT ![user] = FALSE]
          /\ tokenToUser' = [tokenToUser EXCEPT ![userToToken[user]] = Zero]
          /\ userToToken' = [userToToken EXCEPT ![user] = 0]
          /\ owners' = [owners EXCEPT ![userToToken[user]] = Zero]
          /\ tokenIdCounter' = userToToken[user]
          /\ last' = Result("revokeVerification", caller, userToToken[user],
                            "ok")
          /\ UNCHANGED <<now, tokenPaused, ledgerVars>>

\* revokeVerification(user): the flag is cleared, both lookups are deleted
\* and the token is burned; the counter is left alone.
RevokeVerification(caller, user) ==
  LET err == RevokeVerificationErr(caller, user) IN
  /\ Idle
  /\ IF err # "ok" THEN Revert("revokeVerification", caller, 0, err)
     ELSE LET tokenId == userToToken[user] IN
          /\ verifiedUsers' = [verifiedUsers EXCEPT ![user] = FALSE]
          /\ tokenToUser' = [tokenToUser EXCEPT ![tokenId] = Zero]
          /\ userToToken' = [userToToken EXCEPT ![user] = 0]
          /\ owners' = [owners EXCEPT ![tokenId] = Zero]
          /\ last' = Result("revokeVerification", caller, tokenId, "ok")
          /\ UNCHANGED <<now, tokenIdCounter, tokenPaused, ledgerVars>>

\* ERC721.balanceOf(a): the number of tokens a holds
balanceOf(a) == Cardinality({t \in TokenIds : owners[t] = a})

\* _update without the override's check
UpdateErr_Transferable(to, tokenId, auth) ==
  IF auth # Zero /\ owners[tokenId] = Zero THEN "ERC721NonexistentToken"
  ELSE IF auth # Zero /\ auth # owners[tokenId]
    THEN "ERC721InsufficientApproval"
  ELSE "ok"

\* _update(to, tokenId, auth): the override refuses to move a held token to a
\* non-zero address; otherwise ERC721._update checks that the token exists
\* and that auth, when given, is its holder (no approval can exist).
UpdateErr(to, tokenId, auth) ==
  IF owners[tokenId] # Zero /\ to # Zero THEN "TokenNotTransferable"
  ELSE IF auth # Zero /\ owners[tokenId] = Zero THEN "ERC721NonexistentToken"
  ELSE IF auth # Zero /\ auth # owners[tokenId]
    THEN "ERC721InsufficientApproval"
  ELSE "ok"

\* ERC721.transferFrom(from, to, tokenId): the receiver check, _update with
\* msg.sender as auth, then the comparison of the previous holder with from
TransferFromErr(caller, from, to, tokenId) ==
  IF to = Zero THEN "ERC721InvalidReceiver"
  ELSE IF UpdateErr(to, tokenId, caller) # "ok"
    THEN UpdateErr(to, tokenId, caller)
  ELSE IF owners[tokenId] # from THEN "ERC721IncorrectOwner"
  ELSE "ok"

TransferFrom(caller, from, to, tokenId) ==
  LET err == TransferFromErr(caller, from, to, tokenId) IN
  /\ Idle
  /\ IF err # "ok" THEN Revert("transferFrom", caller, tokenId, err)
     ELSE /\ owners' = [owners EXCEPT ![tokenId] = to]
          /\ last' = Result("transferFrom", caller, tokenId, "ok")
          /\ UNCHANGED <<now, verifiedUsers, tokenIdCounter, tokenToUser,
                         userToToken, tokenPaused, ledgerVars>>

\* approve(address, uint256): always reverts
Approve(caller, to, tokenId) ==
  /\ Idle
  /\ Revert("approve", caller, tokenId, "TokenNotTransferable")

\* setApprovalForAll(address, bool): always reverts
SetApprovalForAll(caller, operator, approved) ==
  /\ Idle
  /\ Revert("setApprovalForAll", caller, 0, "TokenNotTransferable")

\* the token's pause(): onlyOwner, then _pause's whenNotPaused
SbtPauseErr(caller) ==
  IF caller # Owner THEN "OwnableUnauthorizedAccount"
  ELSE IF tokenPaused THEN "EnforcedPause"
  ELSE "ok"

SbtPause(caller) ==
  LET err == SbtPauseErr(caller) IN
  /\ Idle
  /\ IF err # "ok" THEN Revert("token.pause", caller, 0, err)
     ELSE /\ tokenPaused' = TRUE
          /\ last' = Result("token.pause", caller, 0, "ok")
          /\ UNCHANGED <<now, verifiedUsers, tokenIdCounter, owners,
                         tokenToUser, userToToken, ledgerVars>>

\* the token's unpause(): onlyOwner, then _unpause's whenPaused
SbtUnpauseErr(caller) ==
  IF caller # Owner THEN "OwnableUnauthorizedAccount"
  ELSE IF ~tokenPaused THEN "ExpectedPause"
  ELSE "ok"

SbtUnpause(caller) ==
  LET err == SbtUnpauseErr(caller) IN
  /\ Idle
  /\ IF err # "ok" THEN Revert("token.unpause", caller, 0, err)
     ELSE /\ tokenPaused' = FALSE
          /\ last' = Result("token.unpause", caller, 0, "ok")
          /\ UNCHANGED <<now, verifiedUsers, tokenIdCounter, owners,
                         tokenToUser, userToToken, ledgerVars>>

\* ---------------------------------------------------------- createEscrow
\* createEscrow without the lender's verification check
CreateEscrowErr_LenderUnchecked(caller, lender, p) ==
  IF ~isVerified(caller) THEN "UnauthorizedAccess"
  ELSE IF paused THEN "EnforcedPause"
  ELSE IF lender = Zero \/ lender = caller THEN "InvalidAmount"
  ELSE IF p.rentalAmount = 0 THEN "InvalidAmount"
  ELSE IF p.duration < MIN_RENTAL_DURATION \/ p.duration > MAX_RENTAL_DURATION
    THEN "InvalidRentalDuration"
  ELSE "ok"

CreateEscrowErr(caller, lender, p) ==
  IF ~isVerified(caller) THEN "UnauthorizedAccess"
  ELSE IF paused THEN "EnforcedPause"
  ELSE IF lender = Zero \/ lender = caller THEN "InvalidAmount"
  ELSE IF ~isVerified(lender) THEN "UnauthorizedAccess"
  ELSE IF p.rentalAmount = 0 THEN "InvalidAmount"
  ELSE IF p.duration < MIN_RENTAL_DURATION \/ p.duration > MAX_RENTAL_DURATION
    THEN "InvalidRentalDuration"
  ELSE "ok"

NewAgreement(caller, lender, p) ==
  [borrower |-> caller,
   lender |-> lender,
   rentalAmount |-> p.rentalAmount,
   securityDeposit |-> p.securityDeposit,
   startTime |-> now,
   endTime |-> now + p.duration,
   createdAt |-> now,
   state |-> "Created",
   itemDescription |-> p.itemDescription,
   lenderConfirmed |-> FALSE,
   borrowerConfirmed |-> FALSE]

\* createEscrow taking the id after incrementing the counter
CreateEscrow_PreIncrement(caller, lender, p) ==
  /\ Idle
  /\ IF CreateEscrowErr(caller, lender, p) # "ok"
     THEN Revert("createEscrow", caller, escrowIdCounter,
                 CreateEscrowErr(caller, lender, p))
     ELSE /\ escrowIdCounter < MaxEscrows
          /\ escrows' = Append(escrows, NewAgreement(caller, lender, p))
          /\ escrowIdCounter' = escrowIdCounter + 1
          /\ userEscrows' =
               [userEscrows EXCEPT
                  ![caller] = Append(@, escrowIdCounter + 1),
                  ![lender] = Append(@, escrowIdCounter + 1)]
          /\ received' = Append(received, 0)
          /\ sent' = Append(sent, <<>>)
          /\ feeAccrued' = Append(feeAccrued, 0)
          /\ last' = Result("createEscrow", caller, escrowIdCounter + 1, "ok")
          /\ UNCHANGED <<now, sbtVars, collectedFees,
                         platformFeePercentage, paused, balance>>

\* createEscrow indexing the new id under its caller only
CreateEscrow_IndexesBorrowerOnly(caller, lender, p) ==
  /\ Idle
  /\ IF CreateEscrowErr(caller, lender, p) # "ok"
     THEN Revert("createEscrow", caller, escrowIdCounter,
                 CreateEscrowErr(caller, lender, p))
     ELSE /\ escrowIdCounter < MaxEscrows
          /\ escrows' = Append(escrows, NewAgreement(caller, lender, p))
          /\ escrowIdCounter' = escrowIdCounter + 1
          /\ userEscrows' =
               [userEscrows EXCEPT ![caller] = Append(@, escrowIdCounter)]
          /\ received' = Append(received, 0)
          /\ sent' = Append(sent, <<>>)
          /\ feeAccrued' = Append(feeAccrued, 0)
          /\ last' = Result("createEscrow", caller, escrowIdCounter, "ok")
          /\ UNCHANGED <<now, sbtVars, collectedFees,
                         platformFeePercentage, paused, balance>>

CreateEscrow(caller, lender, p) ==
  LET err == CreateEscrowErr(caller, lender, p) IN
  /\ Idle
  /\ IF err # "ok" THEN Revert("createEscrow", caller, escrowIdCounter, err)
     ELSE /\ escrowIdCounter < MaxEscrows
          /\ escrows' = Append(escrows, NewAgreement(caller, lender, p))
          /\ escrowIdCounter' = escrowIdCounter + 1
          /\ userEscrows' =
               [userEscrows EXCEPT
                  ![caller] = Append(@, escrowIdCounter),
                  ![lender] = Append(@, escrowIdCounter)]
          /\ received' = Append(received, 0)
          /\ sent' = Append(sent, <<>>)
          /\ feeAccrued' = Append(feeAccrued, 0)
          /\ last' = Result("createEscrow", caller, escrowIdCounter, "ok")
          /\ UNCHANGED <<now, sbtVars, collectedFees,
                         platformFeePercentage, paused, balance>>

\* --------------------------------------------------------------- deposit
\* deposit with "msg.value < totalRequired" as its amount check
DepositErr_AcceptsExcess(caller, id, value) ==
  IF id >= escrowIdCounter THEN "EscrowNotFound"
  ELSE IF caller # escrows[id + 1].borrower THEN "UnauthorizedAccess"
  ELSE IF escrows[id + 1].state # "Created" THEN "InvalidEscrowState"
  ELSE IF value < escrows[id + 1].rentalAmount + escrows[id + 1].securityDeposit
    THEN "InsufficientDeposit"
  ELSE "ok"

\* deposit asking the gate again whether its caller is verified
DepositErr_Reverifies(caller, id, value) ==
  IF ~isVerified(caller) THEN "UnauthorizedAccess"
  ELSE IF id >= escrowIdCounter THEN "EscrowNotFound"
  ELSE IF caller # escrows[id + 1].borrower THEN "UnauthorizedAccess"
  ELSE IF escrows[id + 1].state # "Created" THEN "InvalidEscrowState"
  ELSE IF value # escrows[id + 1].rentalAmount + escrows[id + 1].securityDeposit
    THEN "InsufficientDeposit"
  ELSE "ok"

\* deposit refused while the ledger is paused
DepositErr_WhenNotPaused(caller, id, value) ==
  IF id >= escrowIdCounter THEN "EscrowNotFound"
  ELSE IF caller # escrows[id + 1].borrower THEN "UnauthorizedAccess"
  ELSE IF escrows[id + 1].state # "Created" THEN "InvalidEscrowState"
  ELSE IF paused THEN "EnforcedPause"
  ELSE IF value # escrows[id + 1].rentalAmount + escrows[id + 1].securityDeposit
    THEN "InsufficientDeposit"
  ELSE "ok"

DepositErr(caller, id, value) ==
  IF id >= escrowIdCounter THEN "EscrowNotFound"
  ELSE IF caller # Escrow(id).borrower THEN "UnauthorizedAccess"
  ELSE IF Escrow(id).state # "Created" THEN "InvalidEscrowState"
  ELSE IF value # Escrow(id).rentalAmount + Escrow(id).securityDeposit
    THEN "InsufficientDeposit"
  ELSE "ok"

Deposit(caller, id, value) ==
  LET err == DepositErr(caller, id, value) IN
  /\ Idle
  /\ balance[caller] >= value
  /\ IF err # "ok" THEN Revert("deposit", caller, id, err)
     ELSE /\ escrows' = WithState(id, "Deposited")
          /\ balance' = [balance EXCEPT ![caller] = @ - value,
                                        ![Ledger] = @ + value]
          /\ received' = [received EXCEPT ![id + 1] = @ + value]
          /\ last' = Result("deposit", caller, id, "ok")
          /\ UNCHANGED <<now, sbtVars, escrowIdCounter,
                         userEscrows, collectedFees, platformFeePercentage,
                         paused, sent, feeAccrued>>

\* -------------------------------------------------------- activateRental
\* activateRental without its caller check
ActivateRentalErr_AnyCaller(caller, id) ==
  IF id >= escrowIdCounter THEN "EscrowNotFound"
  ELSE IF escrows[id + 1].state # "Deposited" THEN "InvalidEscrowState"
  ELSE "ok"

ActivateRentalErr(caller, id) ==
  IF id >= escrowIdCounter THEN "EscrowNotFound"
  ELSE IF caller # Escrow(id).lender THEN "UnauthorizedAccess"
  ELSE IF Escrow(id).state # "Deposited" THEN "InvalidEscrowState"
  ELSE "ok"

\* activateRental restarting the rental period at the handover
ActivateRental_RestartsClock(caller, id) ==
  /\ Idle
  /\ IF ActivateRentalErr(caller, id) # "ok"
     THEN Revert("activateRental", caller, id, ActivateRentalErr(caller, id))
     ELSE /\ escrows' =
               [escrows EXCEPT
                  ![id + 1].state = "Active",
                  ![id + 1].lenderConfirmed = TRUE,
                  ![id + 1].startTime = now,
                  ![id + 1].endTime =
                    now + (escrows[id + 1].endTime - escrows[id + 1].startTime)]
          /\ last' = Result("activateRental", caller, id, "ok")
          /\ UNCHANGED <<now, sbtVars, escrowIdCounter,
                         userEscrows, collectedFees, platformFeePercentage,
                         paused, balance, received, sent, feeAccrued>>

\* activateRental that does not record the lender's confirmation
ActivateRental_NoConfirmation(caller, id) ==
  /\ Idle
  /\ IF ActivateRentalErr(caller, id) # "ok"
     THEN Revert("activateRental", caller, id, ActivateRentalErr(caller, id))
     ELSE /\ escrows' = [escrows EXCEPT ![id + 1].state = "Active"]
          /\ last' = Result("activateRental", caller, id, "ok")
          /\ UNCHANGED <<now, sbtVars, escrowIdCounter,
                         userEscrows, collectedFees, platformFeePercentage,
                         paused, balance, received, sent, feeAccrued>>

ActivateRental(caller, id) ==
  LET err == ActivateRentalErr(caller, id) IN
  /\ Idle
  /\ IF err # "ok" THEN Revert("activateRental", caller, id, err)
     ELSE /\ escrows' = [escrows EXCEPT ![id + 1].state = "Active",
                                        ![id + 1].lenderConfirmed = TRUE]
          /\ last' = Result("activateRental", caller, id, "ok")
          /\ UNCHANGED <<now, sbtVars, escrowIdCounter,
                         userEscrows, collectedFees, platformFeePercentage,
                         paused, balance, received, sent, feeAccrued>>

\* ------------------------------------------------------- fund transfers
\* to.call{value: amount}(""): the ledger loses amount, `to` gains it
Pay(bal, to, amount) ==
  [bal EXCEPT ![Ledger] = @ - amount, ![to] = @ + amount]

\* a transfer whose success flag is not looked at
CallSucceeds_Unchecked(held, amount, accepts) == TRUE

\* success of to.call{value: amount}("") from a ledger holding `held`: the
\* ledger must hold the amount and the recipient's code must accept it
CallSucceeds(held, amount, accepts) == held >= amount /\ accepts

\* "revert TransferFailed()": the whole transaction is undone
TransferFailed(op, caller, id) == Revert(op, caller, id, "TransferFailed")

\* ------------------------------------------------------- releaseToLender
\* releaseToLender without its state check
ReleaseToLenderErr_AnyState(caller, id) ==
  IF id >= escrowIdCounter THEN "EscrowNotFound"
  ELSE IF caller # escrows[id + 1].lender THEN "UnauthorizedAccess"
  ELSE IF now < escrows[id + 1].endTime THEN "RentalNotEnded"
  ELSE "ok"

\* releaseToLender with "block.timestamp <= escrow.endTime" as its time gate
ReleaseToLenderErr_StrictGate(caller, id) ==
  IF id >= escrowIdCounter THEN "EscrowNotFound"
  ELSE IF caller # escrows[id + 1].lender THEN "UnauthorizedAccess"
  ELSE IF escrows[id + 1].state # "Active" THEN "InvalidEscrowState"
  ELSE IF now <= escrows[id + 1].endTime THEN "RentalNotEnded"
  ELSE "ok"

\* releaseToLender open only until the dispute window closes
ReleaseToLenderErr_WindowOnly(caller, id) ==
  IF id >= escrowIdCounter THEN "EscrowNotFound"
  ELSE IF caller # escrows[id + 1].lender THEN "UnauthorizedAccess"
  ELSE IF escrows[id + 1].state # "Active" THEN "InvalidEscrowState"
  ELSE IF now < escrows[id + 1].endTime THEN "RentalNotEnded"
  ELSE IF now > escrows[id + 1].endTime + DISPUTE_TIMEOUT
    THEN "DisputeTimeoutExceeded"
  ELSE "ok"

ReleaseToLenderErr(caller, id) ==
  IF id >= escrowIdCounter THEN "EscrowNotFound"
  ELSE IF caller # Escrow(id).lender THEN "UnauthorizedAccess"
  ELSE IF Escrow(id).state # "Active" THEN "InvalidEscrowState"
  ELSE IF now < Escrow(id).endTime THEN "RentalNotEnded"
  ELSE "ok"

\* The payout shared by releaseToLender and resolveDispute(false): the state
\* is set to Completed, the fee accrued, the lender paid rentalAmount - fee
\* and the borrower paid the security deposit.
PayLenderAndReturnDeposit(op, caller, id, lenderAccepts, borrowerAccepts) ==
  LET e == Escrow(id)
      platformFee == PlatformFee(e.rentalAmount, platformFeePercentage)
      lenderAmount == e.rentalAmount - platformFee
      success == CallSucceeds(balance[Ledger], lenderAmount, lenderAccepts)
      depositSuccess ==
        CallSucceeds(balance[Ledger] - lenderAmount, e.securityDeposit,
                     borrowerAccepts)
  IN
  IF ~success \/ ~depositSuccess THEN TransferFailed(op, caller, id)
  ELSE /\ escrows' = WithState(id, "Completed")
       /\ collectedFees' = collectedFees + platformFee
       /\ balance' = Pay(Pay(balance, e.lender, lenderAmount),
                         e.borrower, e.securityDeposit)
       /\ sent' = [sent EXCEPT ![id + 1] =
                     @ \o << <<e.lender, lenderAmount>>,
                             <<e.borrower, e.securityDeposit>> >>]
       /\ feeAccrued' = [feeAccrued EXCEPT ![id + 1] = @ + platformFee]
       /\ last' = Result(op, caller, id, "ok")
       /\ UNCHANGED <<now, sbtVars, escrowIdCounter,
                      userEscrows, platformFeePercentage, paused, received>>

ReleaseToLender(caller, id) ==
  LET err == ReleaseToLenderErr(caller, id) IN
  /\ Idle
  /\ IF err # "ok" THEN Revert("releaseToLender", caller, id, err)
     ELSE \E lenderAccepts \in BOOLEAN, borrowerAccepts \in BOOLEAN :
            PayLenderAndReturnDeposit("releaseToLender", caller, id,
                                      lenderAccepts, borrowerAccepts)

\* ---------------------------------------------------------- raiseDispute
\* raiseDispute without its state check
RaiseDisputeErr_AnyState(caller, id) ==
  IF id >= escrowIdCounter THEN "EscrowNotFound"
  ELSE IF caller # escrows[id + 1].borrower /\ caller # escrows[id + 1].lender
    THEN "UnauthorizedAccess"
  ELSE IF now > escrows[id + 1].endTime + DISPUTE_TIMEOUT
    THEN "DisputeTimeoutExceeded"
  ELSE "ok"

\* raiseDispute with ">=" in its dispute-window check
RaiseDisputeErr_StrictWindow(caller, id) ==
  IF id >= escrowIdCounter THEN "EscrowNotFound"
  ELSE IF caller # escrows[id + 1].borrower /\ caller # escrows[id + 1].lender
    THEN "UnauthorizedAccess"
  ELSE IF escrows[id + 1].state # "Active" THEN "InvalidEscrowState"
  ELSE IF now >= escrows[id + 1].endTime + DISPUTE_TIMEOUT
    THEN "DisputeTimeoutExceeded"
  ELSE "ok"

RaiseDisputeErr(caller, id) ==
  IF id >= escrowIdCounter THEN "EscrowNotFound"
  ELSE IF caller # Escrow(id).borrower /\ caller # Escrow(id).lender
    THEN "UnauthorizedAccess"
  ELSE IF Escrow(id).state # "Active" THEN "InvalidEscrowState"
  ELSE IF now > Escrow(id).endTime + DISPUTE_TIMEOUT
    THEN "DisputeTimeoutExceeded"
  ELSE "ok"

\* raiseDispute accepted without recording the Disputed state
RaiseDispute_NoStateWrite(caller, id) ==
  /\ Idle
  /\ IF RaiseDisputeErr(caller, id) # "ok"
     THEN Revert("raiseDispute", caller, id, RaiseDisputeErr(caller, id))
     ELSE /\ last' = Result("raiseDispute", caller, id, "ok")
          /\ UNCHANGED <<now, sbtVars, ledgerVars>>

RaiseDispute(caller, id) ==
  LET err == RaiseDisputeErr(caller, id) IN
  /\ Idle
  /\ IF err # "ok" THEN Revert("raiseDispute", caller, id, err)
     ELSE /\ escrows' = WithState(id, "Disputed")
          /\ last' = Result("raiseDispute", caller, id, "ok")
          /\ UNCHANGED <<now, sbtVars, escrowIdCounter,
                         userEscrows, collectedFees, platformFeePercentage,
                         paused, balance, received, sent, feeAccrued>>

\* -------------------------------------------------------- resolveDispute
\* resolveDispute without its state check
ResolveDisputeErr_AnyState(caller, id) ==
  IF caller # Owner THEN "OwnableUnauthorizedAccount"
  ELSE IF id >= escrowIdCounter THEN "EscrowNotFound"
  ELSE "ok"

ResolveDisputeErr(caller, id) ==
  IF caller # Owner THEN "OwnableUnauthorizedAccount"
  ELSE IF id >= escrowIdCounter THEN "EscrowNotFound"
  ELSE IF Escrow(id).state # "Disputed" THEN "InvalidEscrowState"
  ELSE "ok"

\* favorBorrower: everything goes back to the borrower
\* a refund of the security deposit alone
RefundBorrower_DepositOnly(caller, id, borrowerAccepts) ==
  IF ~CallSucceeds(balance[Ledger], escrows[id + 1].securityDeposit,
                   borrowerAccepts)
  THEN TransferFailed("resolveDispute", caller, id)
  ELSE /\ escrows' = WithState(id, "Refunded")
       /\ balance' = Pay(balance, escrows[id + 1].borrower,
                         escrows[id + 1].securityDeposit)
       /\ sent' = [sent EXCEPT ![id + 1] =
                     Append(@, <<escrows[id + 1].borrower,
                                 escrows[id + 1].securityDeposit>>)]
       /\ last' = Result("resolveDispute", caller, id, "ok")
       /\ UNCHANGED <<now, sbtVars, escrowIdCounter,
                      userEscrows, collectedFees, platformFeePercentage,
                      paused, received, feeAccrued>>

RefundBorrower(caller, id, borrowerAccepts) ==
  LET e == Escrow(id)
      refundAmount == e.rentalAmount + e.securityDeposit
      success == CallSucceeds(balance[Ledger], refundAmount, borrowerAccepts)
  IN
  IF ~success THEN TransferFailed("resolveDispute", caller, id)
  ELSE /\ escrows' = WithState(id, "Refunded")
       /\ balance' = Pay(balance, e.borrower, refundAmount)
       /\ sent' = [sent EXCEPT ![id + 1] =
                     Append(@, <<e.borrower, refundAmount>>)]
       /\ last' = Result("resolveDispute", caller, id, "ok")
       /\ UNCHANGED <<now, sbtVars, escrowIdCounter,
                      userEscrows, collectedFees, platformFeePercentage,
                      paused, received, feeAccrued>>

ResolveDispute(caller, id, favorBorrower) ==
  LET err == ResolveDisputeErr(caller, id) IN
  /\ Idle
  /\ IF err # "ok" THEN Revert("resolveDispute", caller, id, err)
     ELSE IF favorBorrower
       THEN \E borrowerAccepts \in BOOLEAN :
              RefundBorrower(caller, id, borrowerAccepts)
     ELSE \E lenderAccepts \in BOOLEAN, borrowerAccepts \in BOOLEAN :
            PayLenderAndReturnDeposit("resolveDispute", caller, id,
                                      lenderAccepts, borrowerAccepts)

\* ---------------------------------------------------------- cancelEscrow
\* cancelEscrow without its state check
CancelEscrowErr_AnyState(caller, id) ==
  IF id >= escrowIdCounter THEN "EscrowNotFound"
  ELSE IF caller # escrows[id + 1].borrower /\ caller # escrows[id + 1].lender
    THEN "UnauthorizedAccess"
  ELSE "ok"

\* cancelEscrow allowed until the rental is activated
CancelEscrowErr_BeforeActive(caller, id) ==
  IF id >= escrowIdCounter THEN "EscrowNotFound"
  ELSE IF caller # escrows[id + 1].borrower /\ caller # escrows[id + 1].lender
    THEN "UnauthorizedAccess"
  ELSE IF escrows[id + 1].state \notin {"Created", "Deposited"}
    THEN "InvalidEscrowState"
  ELSE "ok"

CancelEscrowErr(caller, id) ==
  IF id >= escrowIdCounter THEN "EscrowNotFound"
  ELSE IF caller # Escrow(id).borrower /\ caller # Escrow(id).lender
    THEN "UnauthorizedAccess"
  ELSE IF Escrow(id).state # "Created" THEN "InvalidEscrowState"
  ELSE "ok"

CancelEscrow(caller, id) ==
  LET err == CancelEscrowErr(caller, id) IN
  /\ Idle
  /\ IF err # "ok" THEN Revert("cancelEscrow", caller, id, err)
     ELSE /\ escrows' = WithState(id, "Cancelled")
          /\ last' = Result("cancelEscrow", caller, id, "ok")
          /\ UNCHANGED <<now, sbtVars, escrowIdCounter,
                         userEscrows, collectedFees, platformFeePercentage,
                         paused, balance, received, sent, feeAccrued>>

\* ------------------------------------------------------------------ time
\* ----------------------------------------------------------- withdrawFees
WithdrawFeesErr(caller, to) ==
  IF caller # Owner THEN "OwnableUnauthorizedAccount"
  ELSE IF to = Zero THEN "InvalidAmount"
  ELSE "ok"

WithdrawFees(caller, to) ==
  LET err == WithdrawFeesErr(caller, to) IN
  /\ Idle
  /\ IF err # "ok" THEN Revert("withdrawFees", caller, 0, err)
     ELSE \E accepts \in BOOLEAN :
            IF ~CallSucceeds(balance[Ledger], collectedFees, accepts)
            THEN TransferFailed("withdrawFees", caller, 0)
            ELSE /\ collectedFees' = 0
                 /\ balance' = Pay(balance, to, collectedFees)
                 /\ last' = Result("withdrawFees", caller, 0, "ok")
                 /\ UNCHANGED <<now, sbtVars, escrows,
                                escrowIdCounter, userEscrows,
                                platformFeePercentage, paused, received, sent,
                                feeAccrued>>

\* ------------------------------------------------------ updatePlatformFee
\* updatePlatformFee open to every caller
UpdatePlatformFeeErr_AnyCaller(caller, newFeePercentage) ==
  IF newFeePercentage > MaxFeePercentage THEN "InvalidAmount" ELSE "ok"

UpdatePlatformFeeErr(caller, newFeePercentage) ==
  IF caller # Owner THEN "OwnableUnauthorizedAccount"
  ELSE IF newFeePercentage > MaxFeePercentage THEN "InvalidAmount"
  ELSE "ok"

\* the receipt carries newFeePercentage in its id field
UpdatePlatformFee(caller, newFeePercentage) ==
  LET err == UpdatePlatformFeeErr(caller, newFeePercentage) IN
  /\ Idle
  /\ IF err # "ok"
     THEN Revert("updatePlatformFee", caller, newFeePercentage, err)
     ELSE /\ platformFeePercentage' = newFeePercentage
          /\ last' = Result("updatePlatformFee", caller, newFeePercentage, "ok")
          /\ UNCHANGED <<now, sbtVars, escrows,
                         escrowIdCounter, userEscrows, collectedFees, paused,
                         balance, received, sent, feeAccrued>>

\* -------------------------------------------------------- pause / unpause
PauseErr(caller) ==
  IF caller # Owner THEN "OwnableUnauthorizedAccount"
  ELSE IF paused THEN "EnforcedPause"
  ELSE "ok"

Pause(caller) ==
  LET err == PauseErr(caller) IN
  /\ Idle
  /\ IF err # "ok" THEN Revert("pause", caller, 0, err)
     ELSE /\ paused' = TRUE
          /\ last' = Result("pause", caller, 0, "ok")
          /\ UNCHANGED <<now, sbtVars, escrows,
                         escrowIdCounter, userEscrows, collectedFees,
                         platformFeePercentage, balance, received, sent,
                         feeAccrued>>

UnpauseErr(caller) ==
  IF caller # Owner THEN "OwnableUnauthorizedAccount"
  ELSE IF ~paused THEN "ExpectedPause"
  ELSE "ok"

Unpause(caller) ==
  LET err == UnpauseErr(caller) IN
  /\ Idle
  /\ IF err # "ok" THEN Revert("unpause", caller, 0, err)
     ELSE /\ paused' = FALSE
          /\ last' = Result("unpause", caller, 0, "ok")
          /\ UNCHANGED <<now, sbtVars, escrows,
                         escrowIdCounter, userEscrows, collectedFees,
                         platformFeePercentage, balance, received, sent,
                         feeAccrued>>

\* ------------------------------------------------------ emergencyWithdraw
EmergencyWithdrawErr(caller) ==
  IF caller # Owner THEN "OwnableUnauthorizedAccount"
  ELSE IF ~paused THEN "ExpectedPause"
  ELSE "ok"

\* the ledger's whole balance goes to the owner
EmergencyWithdraw(caller) ==
  LET err == EmergencyWithdrawErr(caller) IN
  /\ Idle
  /\ IF err # "ok" THEN Revert("emergencyWithdraw", caller, 0, err)
     ELSE \E accepts \in BOOLEAN :
            IF ~CallSucceeds(balance[Ledger], balance[Ledger], accepts)
            THEN TransferFailed("emergencyWithdraw", caller, 0)
            ELSE /\ balance' = Pay(balance, Owner, balance[Ledger])
                 /\ last' = Result("emergencyWithdraw", caller, 0, "ok")
                 /\ UNCHANGED <<now, sbtVars, escrows,
                                escrowIdCounter, userEscrows, collectedFees,
                                platformFeePercentage, paused, received, sent,
                                feeAccrued>>

\* block.timestamp moves forward between transactions
Tick(t) ==
  /\ Idle
  /\ t > now
  /\ now' = t
  /\ UNCHANGED <<sbtVars, ledgerVars, last>>

\* ------------------------------------------------------------------ views
\* getTotalEscrows()
getTotalEscrows == escrowIdCounter

\* getEscrow without the escrowExists modifier
GetEscrowErr_NoCheck(id) == "ok"

\* getEscrow(escrowId): the escrowExists modifier
GetEscrowErr(id) ==
  IF id >= escrowIdCounter THEN "EscrowNotFound" ELSE "ok"

\* getEscrow(escrowId), a view: the answer is the stored agreement, or the
\* error.  A view has no msg.sender of interest: the answer names none.
GetEscrow(id) ==
  /\ Idle
  /\ last' = Result("getEscrow", Zero, id, GetEscrowErr(id))
  /\ UNCHANGED <<now, sbtVars, ledgerVars>>

\* getUserEscrows(user), a view without modifier: the answer is the array
\* userEscrows[user], empty for an address the ledger has never seen.  It is
\* recorded with the address asked about and the length of the array.
GetUserEscrows(user) ==
  /\ Idle
  /\ last' = Result("getUserEscrows", user, Len(userEscrows[user]), "ok")
  /\ UNCHANGED <<now, sbtVars, ledgerVars>>

\* --------------------------------------------------------- specification
\* msg.value offered to deposit: the exact total, one less, one more
DepositValues(id) ==
  IF id >= escrowIdCounter THEN {0}
  ELSE LET total == Escrow(id).rentalAmount + Escrow(id).securityDeposit
       IN {total, total + 1} \cup (IF total > 0 THEN {total - 1} ELSE {})

\* The receipt of the last transaction reaches its caller.
Ack ==
  /\ ~Idle
  /\ last' = NoReceipt
  /\ UNCHANGED <<now, sbtVars, ledgerVars>>

\* ------------------------------------- service: releaseToLender request
\* The checks the service makes on getEscrowDetails(escrowId) before it
\* sends the transaction.
SvcReleaseCheckErr(lenderAddress, id) ==
  IF id >= escrowIdCounter THEN "Escrow not found"
  ELSE IF Escrow(id).lender # lenderAddress THEN "Unauthorized: Not the lender"
  ELSE IF Escrow(id).state # "Active" THEN "Escrow is not active"
  ELSE IF now < Escrow(id).endTime THEN "Rental period has not ended yet"
  ELSE "ok"

\* The request is received and checked against the ledger's current state.
\* A request that fails a check is answered at once; one that passes waits
\* for its transaction.  Requests take the free slots in order.
SvcReleaseCheck(r, lenderAddress, id) ==
  LET msg == SvcReleaseCheckErr(lenderAddress, id) IN
  /\ Idle
  /\ requests[r].pc = "idle"
  /\ \A q \in ReqIds : q < r => requests[q].pc # "idle"
  /\ IF msg = "ok"
     THEN /\ requests' =
               [requests EXCEPT ![r] =
                  [@ EXCEPT !.pc = "checked", !.lenderAddress = lenderAddress,
                            !.escrowId = id]]
          /\ UNCHANGED last
     ELSE /\ last' = Result("service.releaseToLender", lenderAddress, id, msg)
          /\ UNCHANGED requests
  /\ UNCHANGED <<now, sbtVars, ledgerVars, mempool, feeCalc, backendVars>>

\* What the service answers for a mined transaction: receipt.status !== 1
\* throws 'Transaction failed', which the catch block reports generically.
SvcReleaseResult(err) ==
  IF err = "ok" THEN "success" ELSE "Failed to release payment"

\* The transaction of a checked request is sent and mined.  It is signed by
\* the service's wallet: msg.sender is Wallet, not lenderAddress.
SvcReleaseSubmit(r) ==
  /\ requests[r].pc = "checked"
  /\ ReleaseToLender(Wallet, requests[r].escrowId)
  /\ requests' =
       [requests EXCEPT ![r] =
          [@ EXCEPT !.pc = "done", !.err = last'.err,
                    !.result = SvcReleaseResult(last'.err)]]
  /\ UNCHANGED <<mempool, feeCalc, backendVars>>

\* --------------------------------------------------------- specifications
\* The ledger, called directly by any account.
Next ==
  \/ \E caller \in Users, to \in Users \cup {Zero} :
       MintTo(caller, to) /\ UNCHANGED offLedger
  \/ \E caller \in Users, lender \in Users \cup {Zero}, p \in CreateParams :
       CreateEscrow(caller, lender, p) /\ UNCHANGED offLedger
  \/ \E caller \in Users, id \in Ids :
       \E value \in DepositValues(id) :
         Deposit(caller, id, value) /\ UNCHANGED offLedger
  \/ \E caller \in Users, id \in Ids :
       ActivateRental(caller, id) /\ UNCHANGED offLedger
  \/ \E caller \in Users, id \in Ids :
       ReleaseToLender(caller, id) /\ UNCHANGED offLedger
  \/ \E caller \in Users, id \in Ids :
       RaiseDispute(caller, id) /\ UNCHANGED offLedger
  \/ \E caller \in Users, id \in Ids, favorBorrower \in BOOLEAN :
       ResolveDispute(caller, id, favorBorrower) /\ UNCHANGED offLedger
  \/ \E caller \in Users, id \in Ids :
       CancelEscrow(caller, id) /\ UNCHANGED offLedger
  \/ \E t \in Times : Tick(t) /\ UNCHANGED offLedger
  \/ Ack /\ UNCHANGED offLedger

Spec == Init /\ [][Next]_vars

\* The ledger behind the service: releaseToLender requests are handled while
\* accounts transact with the ledger directly.  Direct transactions that
\* revert change nothing and are left out.
Succeeds == last'.err = "ok" /\ UNCHANGED offLedger

NextService ==
  \/ \E to \in Users : MintTo(Owner, to) /\ Succeeds
  \/ \E caller \in Users, lender \in Users :
       CreateEscrow(caller, lender, TestItem) /\ Succeeds
  \/ \E caller \in Users, id \in Ids :
       Deposit(caller, id, TestItem.rentalAmount + TestItem.securityDeposit)
       /\ Succeeds
  \/ \E caller \in Users, id \in Ids : ActivateRental(caller, id) /\ Succeeds
  \/ \E caller \in Users, id \in Ids : ReleaseToLender(caller, id) /\ Succeeds
  \/ \E caller \in Users, id \in Ids : RaiseDispute(caller, id) /\ Succeeds
  \/ \E id \in Ids, favorBorrower \in BOOLEAN :
       ResolveDispute(Owner, id, favorBorrower) /\ Succeeds
  \/ \E caller \in Users, id \in Ids : CancelEscrow(caller, id) /\ Succeeds
  \/ \E t \in Times : Tick(t) /\ UNCHANGED offLedger
  \/ Ack /\ UNCHANGED offLedger
  \/ \E r \in ReqIds, lenderAddress \in Users, id \in Ids :
       SvcReleaseCheck(r, lenderAddress, id)
  \/ \E r \in ReqIds : SvcReleaseSubmit(r)

SpecService == Init /\ [][NextService]_vars

\* The ledger with its owner's administration.  The agreement operations
\* are taken on the test's agreement, between the test's borrower and lender,
\* and, createEscrow apart, when they succeed; the administrative operations
\* are called by any account.
FeeValues == {0, MaxFeePercentage, MaxFeePercentage + 1}

TestBorrower == "alice"

TestLender == "bob"

NextAdmin ==
  \/ \E to \in {TestBorrower, TestLender} : MintTo(Owner, to) /\ Succeeds
  \/ CreateEscrow(TestBorrower, TestLender, TestItem) /\ UNCHANGED offLedger
  \/ \E id \in Ids :
       Deposit(TestBorrower, id,
               TestItem.rentalAmount + TestItem.securityDeposit)
       /\ Succeeds
  \/ \E id \in Ids : ActivateRental(TestLender, id) /\ Succeeds
  \/ \E id \in Ids : ReleaseToLender(TestLender, id) /\ Succeeds
  \/ \E caller \in {TestBorrower, TestLender}, id \in Ids :
       RaiseDispute(caller, id) /\ Succeeds
  \/ \E id \in Ids, favorBorrower \in BOOLEAN :
       ResolveDispute(Owner, id, favorBorrower) /\ Succeeds
  \/ \E caller \in {TestBorrower, TestLender}, id \in Ids :
       CancelEscrow(caller, id) /\ Succeeds
  \/ \E caller \in Users, to \in {Owner, Zero} :
       WithdrawFees(caller, to) /\ UNCHANGED offLedger
  \/ \E caller \in Users, newFeePercentage \in FeeValues :
       UpdatePlatformFee(caller, newFeePercentage) /\ UNCHANGED offLedger
  \/ \E caller \in Users : Pause(caller) /\ UNCHANGED offLedger
  \/ \E caller \in Users : Unpause(caller) /\ UNCHANGED offLedger
  \/ \E caller \in Users : EmergencyWithdraw(caller) /\ UNCHANGED offLedger
  \/ \E t \in Times : Tick(t) /\ UNCHANGED offLedger
  \/ Ack /\ UNCHANGED offLedger

SpecAdmin == Init /\ [][NextAdmin]_vars

\* The ledger between the test's borrower and lender, with agreements of
\* every kind of item: the test's item, the small item without description,
\* and the items createEscrow refuses.
ItemParams == CreateParams \cup {SmallItem}

NextItems ==
  \/ \E to \in {TestBorrower, TestLender} : MintTo(Owner, to) /\ Succeeds
  \/ \E p \in ItemParams :
       CreateEscrow(TestBorrower, TestLender, p) /\ UNCHANGED offLedger
  \/ \E id \in Ids :
       \E value \in DepositValues(id) :
         Deposit(TestBorrower, id, value) /\ UNCHANGED offLedger
  \/ \E id \in Ids : ActivateRental(TestLender, id) /\ UNCHANGED offLedger
  \/ \E id \in Ids : ReleaseToLender(TestLender, id) /\ UNCHANGED offLedger
  \/ \E caller \in {TestBorrower, TestLender}, id \in Ids :
       RaiseDispute(caller, id) /\ UNCHANGED offLedger
  \/ \E id \in Ids, favorBorrower \in BOOLEAN :
       ResolveDispute(Owner, id, favorBorrower) /\ UNCHANGED offLedger
  \/ \E caller \in {TestBorrower, TestLender}, id \in Ids :
       CancelEscrow(caller, id) /\ UNCHANGED offLedger
  \/ \E t \in Times : Tick(t) /\ UNCHANGED offLedger
  \/ Ack /\ UNCHANGED offLedger

SpecItems == Init /\ [][NextItems]_vars

\* The ledger and its gate: the owner verifies the test's borrower and
\* lender and revokes their verification at any point of the agreements
\* between them, and both keep calling the ledger.
NextGate ==
  \/ \E to \in {TestBorrower, TestLender} : MintTo(Owner, to) /\ Succeeds
  \/ \E user \in {TestBorrower, TestLender} :
       RevokeVerification(Owner, user) /\ UNCHANGED offLedger
  \/ CreateEscrow(TestBorrower, TestLender, TestItem) /\ UNCHANGED offLedger
  \/ \E caller \in {TestBorrower, TestLender}, id \in Ids :
       Deposit(caller, id, TestItem.rentalAmount + TestItem.securityDeposit)
       /\ UNCHANGED offLedger
  \/ \E caller \in {TestBorrower, TestLender}, id \in Ids :
       ActivateRental(caller, id) /\ UNCHANGED offLedger
  \/ \E caller \in {TestBorrower, TestLender}, id \in Ids :
       ReleaseToLender(caller, id) /\ UNCHANGED offLedger
  \/ \E caller \in {TestBorrower, TestLender}, id \in Ids :
       RaiseDispute(caller, id) /\ UNCHANGED offLedger
  \/ \E id \in Ids, favorBorrower \in BOOLEAN :
       ResolveDispute(Owner, id, favorBorrower) /\ Succeeds
  \/ \E caller \in {TestBorrower, TestLender}, id \in Ids :
       CancelEscrow(caller, id) /\ UNCHANGED offLedger
  \/ \E t \in Times : Tick(t) /\ UNCHANGED offLedger
  \/ Ack /\ UNCHANGED offLedger

SpecGate == Init /\ [][NextGate]_vars

\* ------------------------------------------- transactions in the mempool
\* Transactions are sent to the network and wait in the mempool; the block
\* producer executes them one at a time in an order of its choosing.  A
\* transaction is recorded with the positions, in the order of all sendings
\* and executions, at which it was sent and executed, and with what its
\* execution saw: block.timestamp, the agreement's state, and the outcome.
\* The parties send transactions about agreements that exist.
RaceOps == {"releaseToLender", "raiseDispute"}

Mined == {k \in DOMAIN mempool : mempool[k].err # "pending"}

Position == Len(mempool) + Cardinality(Mined) + 1

Submit(op, caller, id) ==
  /\ Idle
  /\ id \in Existing
  /\ Len(mempool) < MaxPending
  /\ mempool' =
       Append(mempool,
              [op |-> op, caller |-> caller, id |-> id, err |-> "pending",
               sentAt |-> Position, minedAt |-> 0, at |-> 0, pre |-> "none"])
  /\ UNCHANGED <<now, sbtVars, ledgerVars, last, requests, feeCalc,
                 backendVars>>

Mine(k) ==
  LET tx == mempool[k] IN
  /\ k \in DOMAIN mempool
  /\ tx.err = "pending"
  /\ IF tx.op = "releaseToLender"
     THEN ReleaseToLender(tx.caller, tx.id)
     ELSE RaiseDispute(tx.caller, tx.id)
  /\ mempool' =
       [mempool EXCEPT ![k] =
          [@ EXCEPT !.err = last'.err,
                    !.minedAt = Position,
                    !.at = now,
                    !.pre = IF tx.id \in Existing THEN Escrow(tx.id).state
                            ELSE "none"]]
  /\ UNCHANGED <<requests, feeCalc, backendVars>>

\* The ledger with the test's agreement made Active directly, and the
\* parties' releaseToLender and raiseDispute going through the mempool.
NextRace ==
  \/ \E to \in {TestBorrower, TestLender} : MintTo(Owner, to) /\ Succeeds
  \/ CreateEscrow(TestBorrower, TestLender, TestItem) /\ Succeeds
  \/ \E id \in Ids :
       Deposit(TestBorrower, id,
               TestItem.rentalAmount + TestItem.securityDeposit)
       /\ Succeeds
  \/ \E id \in Ids : ActivateRental(TestLender, id) /\ Succeeds
  \/ \E op \in RaceOps, caller \in {TestBorrower, TestLender}, id \in Ids :
       Submit(op, caller, id)
  \/ \E k \in 1 .. MaxPending : Mine(k)
  \/ \E t \in Times : Tick(t) /\ UNCHANGED offLedger
  \/ Ack /\ UNCHANGED offLedger

SpecRace == Init /\ [][NextRace]_vars

\* The identity token on its own, called by any account: minting, revoking,
\* pausing, and the ERC721 operations that would move a token.
NextToken ==
  \/ \E caller \in Users, to \in Users \cup {Zero} :
       MintTo(caller, to) /\ UNCHANGED offLedger
  \/ \E caller \in Users, user \in Users \cup {Zero} :
       RevokeVerification(caller, user) /\ UNCHANGED offLedger
  \/ \E caller \in Users, from \in Users, to \in Users \cup {Zero},
        tokenId \in TokenIds :
       TransferFrom(caller, from, to, tokenId) /\ UNCHANGED offLedger
  \/ \E caller \in Users, to \in Users, tokenId \in TokenIds :
       Approve(caller, to, tokenId) /\ UNCHANGED offLedger
  \/ \E caller \in Users, operator \in Users, approved \in BOOLEAN :
       SetApprovalForAll(caller, operator, approved) /\ UNCHANGED offLedger
  \/ \E caller \in Users : SbtPause(caller) /\ UNCHANGED offLedger
  \/ \E caller \in Users : SbtUnpause(caller) /\ UNCHANGED offLedger
  \/ Ack /\ UNCHANGED offLedger

SpecToken == Init /\ [][NextToken]_vars

\* The identity token of a single user: the test's borrower is the only
\* address the owner verifies, revokes and verifies again.
NextRemint ==
  \/ \E caller \in Users, to \in {TestBorrower, Zero} :
       MintTo(caller, to) /\ UNCHANGED offLedger
  \/ \E caller \in Users, user \in Users \cup {Zero} :
       RevokeVerification(caller, user) /\ UNCHANGED offLedger
  \/ \E caller \in Users, from \in Users, to \in Users \cup {Zero},
        tokenId \in TokenIds :
       TransferFrom(caller, from, to, tokenId) /\ UNCHANGED offLedger
  \/ \E caller \in Users : SbtPause(caller) /\ UNCHANGED offLedger
  \/ \E caller \in Users : SbtUnpause(caller) /\ UNCHANGED offLedger
  \/ Ack /\ UNCHANGED offLedger

SpecRemint == Init /\ [][NextRemint]_vars

\* The ledger and its views: agreements are created and carried through
\* their life by any accounts, and getEscrow / getUserEscrows are asked at
\* every point.  Transactions that revert are left out.
NextViews ==
  \/ \E to \in Users : MintTo(Owner, to) /\ Succeeds
  \/ \E caller \in Users, lender \in Users :
       CreateEscrow(caller, lender, TestItem) /\ Succeeds
  \/ \E caller \in Users, id \in Ids :
       Deposit(caller, id, TestItem.rentalAmount + TestItem.securityDeposit)
       /\ Succeeds
  \/ \E caller \in Users, id \in Ids : ActivateRental(caller, id) /\ Succeeds
  \/ \E caller \in Users, id \in Ids : ReleaseToLender(caller, id) /\ Succeeds
  \/ \E caller \in Users, id \in Ids : RaiseDispute(caller, id) /\ Succeeds
  \/ \E id \in Ids, favorBorrower \in BOOLEAN :
       ResolveDispute(Owner, id, favorBorrower) /\ Succeeds
  \/ \E caller \in Users, id \in Ids : CancelEscrow(caller, id) /\ Succeeds
  \/ \E id \in Ids : GetEscrow(id) /\ UNCHANGED offLedger
  \/ \E user \in Users : GetUserEscrows(user) /\ UNCHANGED offLedger
  \/ \E t \in Times : Tick(t) /\ UNCHANGED offLedger
  \/ Ack /\ UNCHANGED offLedger

SpecViews == Init /\ [][NextViews]_vars

\* The fee computation on its own: (amount * bps) / 10000 for amounts around
\* the points where the quotient changes and for rates up to and beyond the
\* maximum the ledger accepts.
Amounts ==
  {0, 1, 30, 39, 40, 41, 9999, 10000, 10001, 1000000, 1500000, InitBalance}

BpsValues ==
  {0, 1, InitialFeePercentage - 1, InitialFeePercentage,
   InitialFeePercentage + 1, MaxFeePercentage - 1, MaxFeePercentage,
   MaxFeePercentage + 1}

InitFee ==
  /\ Deployed
  /\ feeCalc \in [amount : Amounts, bps : BpsValues, fee : {-1}]

ComputeFee ==
  /\ feeCalc.fee = -1
  /\ feeCalc' = [feeCalc EXCEPT !.fee = PlatformFee(feeCalc.amount, feeCalc.bps)]
  /\ UNCHANGED <<now, sbtVars, ledgerVars, last, requests, mempool,
                 backendVars>>

NextFee == ComputeFee

SpecFee == InitFee /\ [][NextFee]_vars

\* ------------------------------- service: createEscrow and makeDeposit
\* The checks the service makes before it sends createEscrow.  durationHours
\* between 1 and 8760 is duration between 3600 and 31536000 seconds.
SvcCreateEscrowErr(borrowerAddress, lender, p) ==
  IF ~isVerified(borrowerAddress) THEN "Borrower is not verified"
  ELSE IF ~isVerified(lender) THEN "Lender is not verified"
  ELSE IF p.duration < 3600 \/ p.duration > 8760 * 3600
    THEN "Invalid rental duration"
  ELSE IF p.itemDescription = "" THEN "Item description is required"
  ELSE "ok"

\* What the service answers for the createEscrow transaction: the catch block
\* looks for the ledger's error names in the message.
SvcCreateEscrowResult(err) ==
  IF err = "ok" THEN "success"
  ELSE IF err = "UnauthorizedAccess" THEN "User is not verified"
  ELSE IF err = "InvalidRentalDuration" THEN "Invalid rental duration"
  ELSE IF err = "InvalidAmount"
    THEN "Invalid rental amount or security deposit"
  ELSE "Failed to create escrow"

Answer(op, address, lender, id, error) ==
  [op |-> op, address |-> address, lender |-> lender, escrowId |-> id,
   error |-> error]

\* The service's createEscrow.  A request that fails a check is answered at
\* once.  Otherwise createEscrow(lenderAddress, ...) is sent, signed by the
\* service's wallet: borrowerAddress is not among the arguments and
\* msg.sender is Wallet.  The id answered is the one of the EscrowCreated
\* event.
SvcCreateEscrow(borrowerAddress, lender, p) ==
  LET msg == SvcCreateEscrowErr(borrowerAddress, lender, p) IN
  /\ Idle
  /\ IF msg # "ok"
     THEN /\ answer' = Answer("createEscrow", borrowerAddress, lender, 0, msg)
          /\ UNCHANGED <<now, sbtVars, ledgerVars, last>>
     ELSE /\ CreateEscrow(Wallet, lender, p)
          /\ answer' = Answer("createEscrow", borrowerAddress, lender,
                              last'.id, SvcCreateEscrowResult(last'.err))
  /\ UNCHANGED <<requests, mempool, feeCalc, payments, callbacks>>

\* The checks the service makes on getEscrowDetails(escrowId) before it
\* sends deposit.
SvcMakeDepositErr(borrowerAddress, id) ==
  IF id >= escrowIdCounter THEN "Escrow not found"
  ELSE IF Escrow(id).borrower # borrowerAddress
    THEN "Unauthorized: Not the borrower"
  ELSE IF Escrow(id).state # "Created" THEN "Escrow is not in created state"
  ELSE "ok"

SvcMakeDepositResult(err) ==
  IF err = "ok" THEN "success"
  ELSE IF err = "UnauthorizedAccess" THEN "Unauthorized access"
  ELSE IF err = "InvalidEscrowState" THEN "Invalid escrow state"
  ELSE IF err = "InsufficientDeposit" THEN "Insufficient deposit amount"
  ELSE "Failed to make deposit"

\* The service's makeDeposit: deposit(escrowId) with the agreement's total as
\* value, signed and paid by the service's wallet.
SvcMakeDeposit(borrowerAddress, id) ==
  LET msg == SvcMakeDepositErr(borrowerAddress, id) IN
  /\ Idle
  /\ IF msg # "ok"
     THEN /\ answer' = Answer("makeDeposit", borrowerAddress, Zero, id, msg)
          /\ UNCHANGED <<now, sbtVars, ledgerVars, last>>
     ELSE /\ Deposit(Wallet, id,
                     Escrow(id).rentalAmount + Escrow(id).securityDeposit)
          /\ answer' = Answer("makeDeposit", borrowerAddress, Zero, id,
                              SvcMakeDepositResult(last'.err))
  /\ UNCHANGED <<requests, mempool, feeCalc, payments, callbacks>>

\* The service in front of the ledger: the token's owner verifies and revokes
\* accounts, the service creates agreements and makes deposits on request,
\* and accounts create agreements directly as well.
NextBackend ==
  \/ \E to \in Users : MintTo(Owner, to) /\ Succeeds
  \/ \E user \in Users : RevokeVerification(Owner, user) /\ Succeeds
  \/ \E borrowerAddress \in Users, lender \in Users, p \in ItemParams :
       SvcCreateEscrow(borrowerAddress, lender, p)
  \/ \E borrowerAddress \in Users, id \in Ids :
       SvcMakeDeposit(borrowerAddress, id)
  \/ \E caller \in Users, lender \in Users :
       CreateEscrow(caller, lender, TestItem) /\ Succeeds
  \/ Ack /\ UNCHANGED offLedger

SpecBackend == Init /\ [][NextBackend]_vars

\* ------------------------------------------------- progress of a rental
\* The lifecycle between the test's borrower and lender when every transfer
\* is accepted and the transactions that revert are left out.  Agreements
\* are created up to the last instant of Times, and the clock runs on to the
\* end of the rental created last.
LiveTimes == Times \cup {t + MIN_RENTAL_DURATION : t \in Times}

TimeAdvances == \E t \in LiveTimes : Tick(t) /\ UNCHANGED offLedger

ReceiptDelivered == Ack /\ UNCHANGED offLedger

\* the lender of agreement id calls activateRental
LenderActivates(id) ==
  /\ id \in Existing
  /\ ActivateRental(Escrow(id).lender, id)
  /\ Succeeds

\* the lender of agreement id calls releaseToLender and both payments are
\* accepted
LenderReleases(id) ==
  /\ id \in Existing
  /\ ReleaseToLender(Escrow(id).lender, id)
  /\ Succeeds

\* the arbiter resolves the dispute on agreement id, either way, and the
\* payments are accepted
ArbiterResolves(id) ==
  /\ id \in Existing
  /\ \E favorBorrower \in BOOLEAN : ResolveDispute(Owner, id, favorBorrower)
  /\ Succeeds

NextLive ==
  \/ \E to \in {TestBorrower, TestLender} : MintTo(Owner, to) /\ Succeeds
  \/ /\ now \in Times
     /\ CreateEscrow(TestBorrower, TestLender, TestItem)
     /\ Succeeds
  \/ \E id \in Ids :
       Deposit(TestBorrower, id,
               TestItem.rentalAmount + TestItem.securityDeposit)
       /\ Succeeds
  \/ \E id \in Ids : LenderActivates(id)
  \/ \E id \in Ids : LenderReleases(id)
  \/ \E caller \in {TestBorrower, TestLender}, id \in Ids :
       RaiseDispute(caller, id) /\ Succeeds
  \/ \E id \in Ids : ArbiterResolves(id)
  \/ \E caller \in {TestBorrower, TestLender}, id \in Ids :
       CancelEscrow(caller, id) /\ Succeeds
  \/ TimeAdvances
  \/ ReceiptDelivered

\* Time keeps advancing, every transaction gets its receipt, and the lender
\* and the arbiter do not leave a call of theirs enabled forever.
FairLive ==
  /\ WF_vars(TimeAdvances)
  /\ WF_vars(ReceiptDelivered)
  /\ \A id \in Ids :
       /\ WF_vars(LenderActivates(id))
       /\ WF_vars(LenderReleases(id))
       /\ WF_vars(ArbiterResolves(id))

SpecLive == Init /\ [][NextLive]_vars /\ FairLive

\* ------------------------------------------------------ the ledger paused
\* The lifecycle between the test's borrower and lender, every call with all
\* its outcomes, while any account tries pause, unpause and
\* emergencyWithdraw.
NextPause ==
  \/ \E to \in {TestBorrower, TestLender} : MintTo(Owner, to) /\ Succeeds
  \/ CreateEscrow(TestBorrower, TestLender, TestItem) /\ UNCHANGED offLedger
  \/ \E caller \in {TestBorrower, TestLender}, id \in Ids :
       Deposit(caller, id, TestItem.rentalAmount + TestItem.securityDeposit)
       /\ UNCHANGED offLedger
  \/ \E caller \in {TestBorrower, TestLender}, id \in Ids :
       ActivateRental(caller, id) /\ UNCHANGED offLedger
  \/ \E caller \in {TestBorrower, TestLender}, id \in Ids :
       ReleaseToLender(caller, id) /\ UNCHANGED offLedger
  \/ \E caller \in {TestBorrower, TestLender}, id \in Ids :
       RaiseDispute(caller, id) /\ UNCHANGED offLedger
  \/ \E caller \in {Owner, TestLender}, id \in Ids, favorBorrower \in BOOLEAN :
       ResolveDispute(caller, id, favorBorrower) /\ UNCHANGED offLedger
  \/ \E caller \in {TestBorrower, TestLender}, id \in Ids :
       CancelEscrow(caller, id) /\ UNCHANGED offLedger
  \/ \E caller \in {Owner, TestBorrower} : Pause(caller) /\ UNCHANGED offLedger
  \/ \E caller \in {Owner, TestBorrower} : Unpause(caller) /\ UNCHANGED offLedger
  \/ \E caller \in {Owner, TestBorrower} :
       EmergencyWithdraw(caller) /\ UNCHANGED offLedger
  \/ \E t \in Times : Tick(t) /\ UNCHANGED offLedger
  \/ Ack /\ UNCHANGED offLedger

SpecPause == Init /\ [][NextPause]_vars

\* ----------------------------------------------------- token statistics
\* totalVerifiedUsers(): the value of the token id counter
totalVerifiedUsers == tokenIdCounter

\* ---------------------------------------------------- payment server
\* A JavaScript value that is not there.  Identifiers and receipt numbers
\* are pairs <<kind, n>>, so that every value compares with Undefined.
Undefined == <<>>

\* obj.name in JavaScript: undefined for a property the object does not have
Field(obj, name) == IF name \in DOMAIN obj THEN obj[name] ELSE Undefined

Truthy(v) == v # Undefined

\* the CheckoutRequestID the gateway gives to the n-th request it accepts
CheckoutRequestID(n) == <<"ws_CO", n>>

\* What the gateway answers to an STK push: the accepted request with its
\* CheckoutRequestID, or an error without one.
GatewayResponses(n) ==
  {[ResponseCode |-> "0", CheckoutRequestID |-> CheckoutRequestID(n)],
   [errorCode |-> "500.001.1001"]}

\* The callbacks the gateway can send: about any request id, with ResultCode
\* 0 (paid) or 1032 (cancelled by the user), with or without
\* CallbackMetadata, which carries the MpesaReceiptNumber.
Callbacks ==
  [CheckoutRequestID : {CheckoutRequestID(n) : n \in 1 .. MaxPayments},
   ResultCode : {0, 1032},
   CallbackMetadata : {Undefined} \cup
                      {[MpesaReceiptNumber |-> <<"receipt", n>>] :
                         n \in 1 .. MaxPayments}]

\* storage.createPayment
createPayment(rows, payment) == Append(rows, payment)

\* storage.updatePaymentStatus: the rows with that checkout_request_id get
\* the status, and the receipt number when one is given
updatePaymentStatus(rows, checkoutRequestId, status, receiptNumber) ==
  [i \in DOMAIN rows |->
     IF rows[i].checkout_request_id = checkoutRequestId
     THEN [rows[i] EXCEPT
             !.status = status,
             !.mpesa_receipt_number =
               IF Truthy(receiptNumber) THEN receiptNumber ELSE @]
     ELSE rows[i]]

\* initiatePayment: the request is sent to the gateway, and a row with status
\* 'pending' is stored if the answer carries a CheckoutRequestID.
InitiatePayment(paymentResponse) ==
  /\ Len(payments) < MaxPayments
  /\ payments' =
       IF Truthy(Field(paymentResponse, "CheckoutRequestID"))
       THEN createPayment(payments,
                          [checkout_request_id |->
                             paymentResponse.CheckoutRequestID,
                           status |-> "pending",
                           mpesa_receipt_number |-> Undefined])
       ELSE payments
  /\ UNCHANGED <<now, sbtVars, ledgerVars, last, requests, mempool, feeCalc,
                 answer, callbacks>>

\* DarajaService.processCallback: what it returns for a callback.  Reading
\* CallbackMetadata.Item of a callback without metadata throws, and the catch
\* block answers for it.
processCallback(callbackData) ==
  IF callbackData.ResultCode = 0
  THEN IF callbackData.CallbackMetadata = Undefined
       THEN [success |-> FALSE,
             errorMessage |-> "Failed to process payment callback"]
       ELSE [success |-> TRUE,
             transactionId |-> callbackData.CallbackMetadata.MpesaReceiptNumber]
  ELSE [success |-> FALSE, errorMessage |-> "ResultDesc"]

\* PaymentController.handleCallback: the status is updated under
\* result.checkoutRequestId, and the gateway is answered ResultCode 0.
handleCallback(callbackData) ==
  LET result == processCallback(callbackData) IN
  /\ Len(callbacks) < MaxCallbacks
  /\ payments' =
       IF result.success /\ Truthy(Field(result, "checkoutRequestId"))
       THEN updatePaymentStatus(payments, Field(result, "checkoutRequestId"),
                                "completed",
                                Field(result, "mpesaReceiptNumber"))
       ELSE IF Truthy(Field(result, "checkoutRequestId"))
       THEN updatePaymentStatus(payments, Field(result, "checkoutRequestId"),
                                "failed", Undefined)
       ELSE payments
  /\ callbacks' =
       Append(callbacks,
              [CheckoutRequestID |-> callbackData.CheckoutRequestID,
               ResultCode |-> callbackData.ResultCode,
               CallbackMetadata |-> callbackData.CallbackMetadata,
               answer |-> [ResultCode |-> 0, ResultDesc |-> "Success"]])
  /\ UNCHANGED <<now, sbtVars, ledgerVars, last, requests, mempool, feeCalc,
                 answer>>

\* The payment server: payments are initiated, and the gateway calls back
\* about requests it has accepted, any number of times and in any order.
NextPayments ==
  \/ \E paymentResponse \in GatewayResponses(Len(payments) + 1) :
       InitiatePayment(paymentResponse)
  \/ \E callbackData \in Callbacks :
       /\ \E i \in DOMAIN payments :
            payments[i].checkout_request_id = callbackData.CheckoutRequestID
       /\ handleCallback(callbackData)

SpecPayments == Init /\ [][NextPayments]_vars

\* ------------------------------------------------------------ accounting
RECURSIVE SumAmounts(_)
SumAmounts(transfers) ==
  IF transfers = <<>> THEN 0
  ELSE transfers[1][2] + SumAmounts(Tail(transfers))

\* Paid out for an agreement: to accounts, and into the fee pool.
PaidOut(id) == SumAmounts(sent[id + 1]) + feeAccrued[id + 1]

\* Deposited for an agreement and not yet paid out.
Custody(id) == received[id + 1] - PaidOut(id)

Total(id) == Escrow(id).rentalAmount + Escrow(id).securityDeposit

\* -------------------------------------------------------------------- C1
\* C1 as stated: custody is rentalAmount + securityDeposit in Deposited and
\* Active and zero in every other state, Disputed included.
C1_AsStated ==
  \A id \in Existing :
    Custody(id) =
      IF Escrow(id).state \in {"Deposited", "Active"} THEN Total(id) ELSE 0

\* C1 amended: in every reachable state and for every agreement, the funds
\* deposited for it and not yet paid out equal rentalAmount + securityDeposit
\* if its state is Deposited, Active or Disputed, and zero in Created,
\* Completed, Refunded and Cancelled.
C1_Custody ==
  \A id \in Existing :
    Custody(id) =
      IF Escrow(id).state \in {"Deposited", "Active", "Disputed"}
      THEN Total(id) ELSE 0

\* A disputed agreement whose funds are still held.
C1_Witness ==
  \E id \in Existing :
    /\ Escrow(id).state = "Disputed"
    /\ Custody(id) = Total(id)
    /\ Total(id) > 0

\* -------------------------------------------------------------------- C2
\* The directed graph of the state machine.
AllowedTransitions ==
  { <<"Created", "Deposited">>, <<"Deposited", "Active">>,
    <<"Active", "Completed">>, <<"Active", "Disputed">>,
    <<"Disputed", "Refunded">>, <<"Disputed", "Completed">>,
    <<"Created", "Cancelled">> }

\* C2: every change of an agreement's state, by any operation of any caller,
\* is an edge of the graph Created->Deposited->Active->{Completed|Disputed},
\* Disputed->{Refunded|Completed}, Created->Cancelled.
C2_Transitions ==
  [][\A id \in Existing :
       escrows'[id + 1].state # escrows[id + 1].state =>
         <<escrows[id + 1].state, escrows'[id + 1].state>> \in AllowedTransitions]_vars

\* A dispute has just been resolved for the lender: Disputed -> Completed.
C2_Witness ==
  /\ last.op = "resolveDispute"
  /\ last.err = "ok"
  /\ Escrow(last.id).state = "Completed"

\* -------------------------------------------------------------------- C3
\* The accounts that were sent value on behalf of an agreement.
Recipients(id) == { sent[id + 1][i][1] : i \in 1 .. Len(sent[id + 1]) }

\* The transaction just executed released the funds of agreement id.
Released(id) ==
  /\ last.op \in {"releaseToLender", "resolveDispute"}
  /\ last.err = "ok"
  /\ last.id = id

C4_AsStated ==
  [][\A r \in ReqIds :
       (requests[r].pc = "checked" /\ requests'[r].pc = "done") =>
         LET id == requests[r].escrowId
             err == requests'[r].err
         IN /\ Escrow(id).state = "Active" =>
                 /\ err \in {"ok", "TransferFailed"}
                 /\ err = "ok" =>
                      (PaidOut(id) = 0 /\ PaidOut(id)' = Total(id))
            /\ Escrow(id).state = "Completed" =>
                 /\ err = "InvalidEscrowState"
                 /\ PaidOut(id)' = PaidOut(id)]_vars

\* ------------------------------------------------------------------ C5
\* C5: when a transfer inside releaseToLender or resolveDispute fails (the
\* lender's, the borrower's, or the second after the first went through), the
\* call ends with TransferFailed and the agreement, collectedFees and every
\* balance are what they were before the call.
C5_TransferFailedRollsBack ==
  [][/\ \A caller \in Users, id \in Existing, la \in BOOLEAN, ba \in BOOLEAN :
          /\ (/\ Idle
              /\ ReleaseToLenderErr(caller, id) = "ok"
              /\ ~(la /\ ba)
              /\ PayLenderAndReturnDeposit("releaseToLender", caller, id, la, ba))
               => (last'.err = "TransferFailed" /\ UNCHANGED ledgerVars)
          /\ (/\ Idle
              /\ ResolveDisputeErr(caller, id) = "ok"
              /\ ~(la /\ ba)
              /\ PayLenderAndReturnDeposit("resolveDispute", caller, id, la, ba))
               => (last'.err = "TransferFailed" /\ UNCHANGED ledgerVars)
          /\ (/\ Idle
              /\ ResolveDisputeErr(caller, id) = "ok"
              /\ ~ba
              /\ RefundBorrower(caller, id, ba))
               => (last'.err = "TransferFailed" /\ UNCHANGED ledgerVars)
     /\ last'.err = "TransferFailed" =>
          /\ last'.op \in {"releaseToLender", "resolveDispute"}
          /\ UNCHANGED ledgerVars]_vars

\* a release and a resolution have both just failed on a transfer, with the
\* agreement still in the state it had and the ledger still holding its funds
C5_Witness ==
  /\ last.err = "TransferFailed"
  /\ last.op = "resolveDispute"
  /\ last.id \in Existing
  /\ Escrow(last.id).state = "Disputed"
  /\ Custody(last.id) = Total(last.id)
  /\ balance[Ledger] >= Total(last.id)

\* ------------------------------------------------------------------ C6
\* the fee as the claim defines it: the floor of rentalAmount * bps / 10000
FloorFee(rentalAmount, bps) ==
  CHOOSE f \in 0..rentalAmount :
    /\ f * FeeDenominator <= rentalAmount * bps
    /\ rentalAmount * bps < (f + 1) * FeeDenominator

\* C6: a successful releaseToLender pays rentalAmount - fee to the lender and
\* securityDeposit to the borrower, adds fee to collectedFees and completes the
\* agreement, with fee = floor(rentalAmount * platformFeePercentage / 10000);
\* the three amounts add up to rentalAmount + securityDeposit, and
\* 1_000_000 / 500_000 at 250 bps gives 975_000, 500_000 and 25_000.
C6_ReleasePayout ==
  [][\A id \in Existing :
     (last'.op = "releaseToLender" /\ last'.err = "ok" /\ last'.id = id) =>
       LET e   == Escrow(id)
           fee == FloorFee(e.rentalAmount, platformFeePercentage)
           toLender   == balance'[e.lender] - balance[e.lender]
           toBorrower == balance'[e.borrower] - balance[e.borrower]
       IN /\ toLender = e.rentalAmount - fee
          /\ toBorrower = e.securityDeposit
          /\ collectedFees' = collectedFees + fee
          /\ balance'[Ledger] = balance[Ledger] - toLender - toBorrower
          /\ Escrow(id)' = [e EXCEPT !.state = "Completed"]
          /\ toLender + toBorrower + fee = e.rentalAmount + e.securityDeposit
          /\ (/\ e.rentalAmount = 1000000
              /\ e.securityDeposit = 500000
              /\ platformFeePercentage = 250)
               => (toLender = 975000 /\ toBorrower = 500000 /\ fee = 25000)]_vars

\* the worked example has been released: 975_000 to the lender, 500_000 to
\* the borrower, 25_000 to the fee pool
C6_Witness ==
  /\ last.op = "releaseToLender"
  /\ last.err = "ok"
  /\ Escrow(last.id).state = "Completed"
  /\ Escrow(last.id).rentalAmount = 1000000
  /\ sent[last.id + 1] = << <<Escrow(last.id).lender, 975000>>,
                            <<Escrow(last.id).borrower, 500000>> >>
  /\ feeAccrued[last.id + 1] = 25000
  /\ collectedFees >= 25000

\* ------------------------------------------------------------------ C7
Terminal == {"Completed", "Refunded", "Cancelled"}

\* C7: once an agreement is Completed, Refunded or Cancelled, no step changes
\* any field of it and no funds are received or sent on its behalf.
C7_TerminalIsFinal ==
  [][\A id \in Existing :
       Escrow(id).state \in Terminal =>
         /\ Escrow(id)' = Escrow(id)
         /\ received'[id + 1] = received[id + 1]
         /\ sent'[id + 1] = sent[id + 1]
         /\ feeAccrued'[id + 1] = feeAccrued[id + 1]]_vars

\* an operation by one of the parties or the arbiter has just been refused on
\* a terminal agreement
C7_Witness ==
  /\ last.op \in {"deposit", "activateRental", "releaseToLender",
                  "raiseDispute", "resolveDispute", "cancelEscrow"}
  /\ last.err = "InvalidEscrowState"
  /\ last.id \in Existing
  /\ Escrow(last.id).state \in Terminal
  /\ last.caller \in {Escrow(last.id).borrower, Escrow(last.id).lender, Owner}

\* ------------------------------------------------------------------ C8
AgreementOps == {"deposit", "activateRental", "releaseToLender",
                 "raiseDispute", "resolveDispute", "cancelEscrow"}

\* the caller each operation of an agreement is reserved to
Authorized(op, caller, id) ==
  CASE op = "deposit" -> caller = Escrow(id).borrower
    [] op \in {"activateRental", "releaseToLender"} -> caller = Escrow(id).lender
    [] op \in {"raiseDispute", "cancelEscrow"} ->
         caller \in {Escrow(id).borrower, Escrow(id).lender}
    [] op = "resolveDispute" -> caller = Owner
    [] OTHER -> FALSE

\* C8: an agreement changes only in a successful operation on that agreement
\* by the caller the operation is reserved to (deposit: borrower; activateRental
\* and releaseToLender: lender; raiseDispute and cancelEscrow: borrower or
\* lender; resolveDispute: owner); a call by anyone else fails and changes no
\* agreement.
C8_OnlyAuthorizedCaller ==
  [][/\ \A id \in Existing :
          escrows'[id + 1] # escrows[id + 1] =>
            /\ last'.id = id
            /\ last'.err = "ok"
            /\ Authorized(last'.op, last'.caller, id)
     /\ \A op \in AgreementOps, caller \in Users, id \in Existing :
          (/\ last'.op = op
           /\ last'.caller = caller
           /\ last'.id = id
           /\ ~Authorized(op, caller, id)) =>
             /\ last'.err \in {"UnauthorizedAccess", "OwnableUnauthorizedAccount"}
             /\ escrows' = escrows]_vars

\* someone who is neither party nor owner has just been refused an operation
\* that the agreement's state would have allowed a party
C8_Witness ==
  /\ last.op = "activateRental"
  /\ last.err = "UnauthorizedAccess"
  /\ last.id \in Existing
  /\ last.caller \notin {Escrow(last.id).borrower, Escrow(last.id).lender, Owner}
  /\ Escrow(last.id).state = "Deposited"

\* ------------------------------------------------------------------ C9
EscrowOps == AgreementOps \cup {"createEscrow"}

\* the state each operation of an agreement requires
RequiredState(op) ==
  CASE op = "deposit" -> "Created"
    [] op = "activateRental" -> "Deposited"
    [] op \in {"releaseToLender", "raiseDispute"} -> "Active"
    [] op = "resolveDispute" -> "Disputed"
    [] OTHER -> "Created"

\* the error a failed call returned names a precondition that did not hold
NamesViolation(op, caller, id, err) ==
  CASE err = "EscrowNotFound" -> id \notin Existing
    [] err = "OwnableUnauthorizedAccount" ->
         op = "resolveDispute" /\ caller # Owner
    [] err = "UnauthorizedAccess" ->
         IF op = "createEscrow" THEN TRUE
         ELSE id \in Existing /\ ~Authorized(op, caller, id)
    [] err = "InvalidEscrowState" ->
         id \in Existing /\ Escrow(id).state # RequiredState(op)
    [] err = "InsufficientDeposit" ->
         op = "deposit" /\ Escrow(id).state = "Created"
    [] err = "RentalNotEnded" ->
         op = "releaseToLender" /\ now < Escrow(id).endTime
    [] err = "DisputeTimeoutExceeded" ->
         op = "raiseDispute" /\ now > Escrow(id).endTime + DISPUTE_TIMEOUT
    [] err \in {"InvalidAmount", "InvalidRentalDuration", "EnforcedPause"} ->
         op = "createEscrow"
    [] OTHER -> FALSE

\* C9: an operation that fails a precondition returns a typed error naming a
\* precondition that did not hold, and leaves every agreement, the id counter,
\* the per-user index, collectedFees and all balances unchanged.
C9_FailureChangesNothing ==
  [][\A op \in EscrowOps, caller \in Users, id \in Ids :
       (/\ last' # last
        /\ last'.op = op
        /\ last'.caller = caller
        /\ last'.id = id
        /\ last'.err \notin {"ok", "TransferFailed"}) =>
          /\ NamesViolation(op, caller, id, last'.err)
          /\ UNCHANGED <<escrows, escrowIdCounter, userEscrows, collectedFees,
                         balance, received, sent, feeAccrued>>]_vars

\* a call has just failed on a time gate, and the agreement and the funds the
\* ledger holds for it are still there
C9_Witness ==
  /\ last.op = "releaseToLender"
  /\ last.err = "RentalNotEnded"
  /\ Escrow(last.id).state = "Active"
  /\ balance[Ledger] >= Total(last.id)

\* ----------------------------------------------------------------- C10
\* C10: deposit succeeds exactly when the caller is the borrower, the state is
\* Created and the amount is rentalAmount + securityDeposit; from the borrower
\* on a Created agreement any other amount, smaller or larger, fails with
\* InsufficientDeposit, the agreement stays Created and no funds move.
C10_ExactDeposit ==
  [][\A caller \in Users, id \in Existing :
       \A value \in DepositValues(id) :
         Deposit(caller, id, value) =>
           /\ last'.err = "ok" <=>
                /\ caller = Escrow(id).borrower
                /\ Escrow(id).state = "Created"
                /\ value = Total(id)
           /\ (/\ caller = Escrow(id).borrower
               /\ Escrow(id).state = "Created"
               /\ value # Total(id)) =>
                /\ last'.err = "InsufficientDeposit"
                /\ escrows' = escrows
                /\ balance' = balance
                /\ received' = received]_vars

\* the borrower's deposit of a wrong amount has just been refused: the
\* agreement is still Created and the ledger holds nothing for it
C10_Witness ==
  /\ last.op = "deposit"
  /\ last.err = "InsufficientDeposit"
  /\ Escrow(last.id).state = "Created"
  /\ last.caller = Escrow(last.id).borrower
  /\ received[last.id + 1] = 0

\* ----------------------------------------------------------------- C11
\* C11: releaseToLender by the lender on an Active agreement fails with
\* RentalNotEnded when now < endTime, leaving the agreement Active and every
\* balance as it was; at any now >= endTime, however late, the time gate lets
\* it through (it succeeds unless a transfer fails).
C11_ReleaseTimeGate ==
  [][\A id \in Existing :
       (/\ Idle
        /\ last'.op = "releaseToLender"
        /\ last'.id = id
        /\ last'.caller = Escrow(id).lender
        /\ Escrow(id).state = "Active") =>
          IF now < Escrow(id).endTime
          THEN /\ last'.err = "RentalNotEnded"
               /\ escrows'[id + 1].state = "Active"
               /\ UNCHANGED ledgerVars
          ELSE last'.err \in {"ok", "TransferFailed"}]_vars

\* a release has just succeeded after the end of the dispute window
C11_Witness ==
  /\ last.op = "releaseToLender"
  /\ last.err = "ok"
  /\ last.id \in Existing
  /\ now > Escrow(last.id).endTime + DISPUTE_TIMEOUT
  /\ Escrow(last.id).state = "Completed"

\* ----------------------------------------------------------------- C12
\* C12: raiseDispute by the borrower or the lender on an Active agreement
\* succeeds when now <= endTime + DISPUTE_TIMEOUT (before endTime too) and
\* fails with DisputeTimeoutExceeded when now > endTime + DISPUTE_TIMEOUT; on
\* success only the state changes, to Disputed, and no funds move.
C12_DisputeWindow ==
  [][\A id \in Existing :
       (/\ Idle
        /\ last'.op = "raiseDispute"
        /\ last'.id = id
        /\ last'.caller \in {Escrow(id).borrower, Escrow(id).lender}
        /\ Escrow(id).state = "Active") =>
          IF now <= Escrow(id).endTime + DISPUTE_TIMEOUT
          THEN /\ last'.err = "ok"
               /\ escrows' = WithState(id, "Disputed")
               /\ UNCHANGED <<balance, collectedFees, received, sent,
                              feeAccrued, escrowIdCounter, userEscrows>>
          ELSE /\ last'.err = "DisputeTimeoutExceeded"
               /\ UNCHANGED ledgerVars]_vars

\* a dispute has just been raised before the rental's end, the funds still
\* held by the ledger
C12_Witness ==
  /\ last.op = "raiseDispute"
  /\ last.err = "ok"
  /\ last.id \in Existing
  /\ now < Escrow(last.id).endTime
  /\ Escrow(last.id).state = "Disputed"
  /\ Custody(last.id) = Total(last.id)

\* ----------------------------------------------------------------- C13
\* C13: resolveDispute by the owner on a Disputed agreement, when it succeeds,
\* with favorBorrower pays rentalAmount + securityDeposit to the borrower,
\* nothing to the lender, no fee, and sets Refunded; without favorBorrower it
\* pays rentalAmount - fee to the lender and securityDeposit to the borrower,
\* adds fee = floor(rentalAmount * platformFeePercentage / 10000) to
\* collectedFees, as releaseToLender does, and sets Completed.  In any other
\* state it fails with InvalidEscrowState and changes nothing.
C13_ResolveDispute ==
  [][\A id \in Existing :
       (/\ Idle
        /\ last'.op = "resolveDispute"
        /\ last'.caller = Owner
        /\ last'.id = id) =>
          IF Escrow(id).state # "Disputed"
          THEN last'.err = "InvalidEscrowState" /\ UNCHANGED ledgerVars
          ELSE \A favorBorrower \in BOOLEAN :
                 (last'.err = "ok" /\ ResolveDispute(Owner, id, favorBorrower)) =>
                   LET e   == Escrow(id)
                       fee == FloorFee(e.rentalAmount, platformFeePercentage)
                       toLender   == balance'[e.lender] - balance[e.lender]
                       toBorrower == balance'[e.borrower] - balance[e.borrower]
                   IN IF favorBorrower
                      THEN /\ toBorrower = e.rentalAmount + e.securityDeposit
                           /\ toLender = 0
                           /\ collectedFees' = collectedFees
                           /\ feeAccrued' = feeAccrued
                           /\ escrows' = WithState(id, "Refunded")
                      ELSE /\ toLender = e.rentalAmount - fee
                           /\ toBorrower = e.securityDeposit
                           /\ collectedFees' = collectedFees + fee
                           /\ escrows' = WithState(id, "Completed")]_vars

\* the dispute over the worked example has just been resolved for the
\* borrower: 1_500_000 refunded, nothing to the lender, no fee
C13_Witness ==
  /\ last.op = "resolveDispute"
  /\ last.err = "ok"
  /\ last.id \in Existing
  /\ Escrow(last.id).state = "Refunded"
  /\ sent[last.id + 1] = << <<Escrow(last.id).borrower, 1500000>> >>
  /\ feeAccrued[last.id + 1] = 0
  /\ collectedFees = 0

\* ----------------------------------------------------------------- C14
\* C14: an agreement starts in Created, enters Deposited only from Created,
\* Active only from Deposited, Disputed only from Active and Completed only
\* from Active or Disputed, so every Completed agreement was Deposited and
\* then Active before; a Completed agreement carries the record of both (its
\* deposit was received, its lender confirmed the handover).
C14_CompletedPath ==
  [][/\ \A id \in Existing :
          LET s == Escrow(id).state
              t == escrows'[id + 1].state
          IN /\ (t = "Completed" /\ s # t) => s \in {"Active", "Disputed"}
             /\ (t = "Disputed" /\ s # t) => s = "Active"
             /\ (t = "Active" /\ s # t) => s = "Deposited"
             /\ (t = "Deposited" /\ s # t) => s = "Created"
     /\ escrowIdCounter' # escrowIdCounter =>
          escrows'[escrowIdCounter + 1].state = "Created"
     /\ \A id \in 0 .. (escrowIdCounter' - 1) :
          escrows'[id + 1].state = "Completed" =>
            /\ escrows'[id + 1].lenderConfirmed
            /\ received'[id + 1] =
                 escrows'[id + 1].rentalAmount + escrows'[id + 1].securityDeposit]_vars

\* an agreement has just been completed by the resolution of its dispute
C14_Witness ==
  /\ last.op = "resolveDispute"
  /\ last.err = "ok"
  /\ last.id \in Existing
  /\ Escrow(last.id).state = "Completed"
  /\ Escrow(last.id).lenderConfirmed
  /\ received[last.id + 1] = Total(last.id)

\* ----------------------------------------------------------------- C15
\* C15: cancelEscrow succeeds exactly when the caller is the borrower or the
\* lender and the agreement is in Created; it then sets Cancelled, the ledger
\* holds nothing for the agreement and no transfer has been or is made; in any
\* other state a party's cancelEscrow fails with InvalidEscrowState and
\* changes nothing.
C15_CancelOnlyCreated ==
  [][\A id \in Existing :
       (/\ Idle
        /\ last'.op = "cancelEscrow"
        /\ last'.id = id) =>
          LET party == last'.caller \in {Escrow(id).borrower, Escrow(id).lender}
          IN /\ last'.err = "ok" <=> (party /\ Escrow(id).state = "Created")
             /\ last'.err = "ok" =>
                  /\ escrows' = WithState(id, "Cancelled")
                  /\ received[id + 1] = 0 /\ sent[id + 1] = <<>>
                  /\ UNCHANGED <<balance, collectedFees, received, sent,
                                 feeAccrued, escrowIdCounter, userEscrows>>
             /\ (party /\ Escrow(id).state # "Created") =>
                  /\ last'.err = "InvalidEscrowState"
                  /\ UNCHANGED ledgerVars]_vars

\* an agreement has just been cancelled: nothing was ever received or sent
\* for it
C15_Witness ==
  /\ last.op = "cancelEscrow"
  /\ last.err = "ok"
  /\ last.id \in Existing
  /\ Escrow(last.id).state = "Cancelled"
  /\ Custody(last.id) = 0
  /\ received[last.id + 1] = 0
  /\ sent[last.id + 1] = <<>>

\* ----------------------------------------------------------------- C16
\* C16: createEscrow succeeds only when caller and lender are both verified
\* and different, rentalAmount > 0 and MIN_RENTAL_DURATION <= duration <=
\* MAX_RENTAL_DURATION; the agreement it adds is in Created, has the caller as
\* borrower, the given lender, amounts and description, startTime = createdAt
\* = now, endTime = startTime + duration, and both confirmation flags false.
C16_CreateEscrow ==
  [][(/\ Idle
      /\ last'.op = "createEscrow"
      /\ last'.err = "ok") =>
       \A caller \in Users, lender \in Users \cup {Zero}, p \in CreateParams :
         CreateEscrow(caller, lender, p) =>
           /\ isVerified(caller)
           /\ isVerified(lender)
           /\ lender # caller
           /\ p.rentalAmount > 0
           /\ p.duration >= MIN_RENTAL_DURATION
           /\ p.duration <= MAX_RENTAL_DURATION
           /\ escrows' =
                Append(escrows,
                       [borrower |-> caller,
                        lender |-> lender,
                        rentalAmount |-> p.rentalAmount,
                        securityDeposit |-> p.securityDeposit,
                        startTime |-> now,
                        endTime |-> now + p.duration,
                        createdAt |-> now,
                        state |-> "Created",
                        itemDescription |-> p.itemDescription,
                        lenderConfirmed |-> FALSE,
                        borrowerConfirmed |-> FALSE])]_vars

\* an agreement has just been created at a time after 0: it starts now and
\* ends one duration later
C16_Witness ==
  /\ last.op = "createEscrow"
  /\ last.err = "ok"
  /\ last.id \in Existing
  /\ now > 0
  /\ Escrow(last.id).state = "Created"
  /\ Escrow(last.id).borrower = last.caller
  /\ Escrow(last.id).startTime = now
  /\ Escrow(last.id).endTime = now + MIN_RENTAL_DURATION

\* ----------------------------------------------------------------- C17
\* C17 as stated: the ledger rejects createEscrow with an empty item
\* description, so no agreement ever carries one.
C17_AsStated ==
  \A id \in Existing : Escrow(id).itemDescription # ""

\* ----------------------------------------------------------------- C18
\* C18: getTotalEscrows() starts at 0 and is the number of agreements stored,
\* whose ids are 0 .. getTotalEscrows() - 1; a successful createEscrow takes
\* the id getTotalEscrows() and raises the count by one, keeping every earlier
\* agreement under its id; every other step, a failed createEscrow included,
\* leaves the count and the set of ids as they are.
C18_IdsSequential ==
  /\ getTotalEscrows = 0
  /\ [](/\ Len(escrows) = getTotalEscrows
        /\ \A a \in Users :
             \A k \in 1 .. Len(userEscrows[a]) : userEscrows[a][k] \in Existing)
  /\ [][IF last' # last /\ last'.op = "createEscrow" /\ last'.err = "ok"
        THEN /\ getTotalEscrows' = getTotalEscrows + 1
             /\ last'.id = getTotalEscrows
             /\ Len(escrows') = Len(escrows) + 1
             /\ \A a \in Users :
                  \/ userEscrows'[a] = userEscrows[a]
                  \/ userEscrows'[a] = Append(userEscrows[a], getTotalEscrows)
        ELSE /\ getTotalEscrows' = getTotalEscrows
             /\ Len(escrows') = Len(escrows)
             /\ userEscrows' = userEscrows]_vars

\* the second agreement has just been created under id 1, the first, under
\* id 0, being still on record after reaching a terminal state
C18_Witness ==
  /\ last.op = "createEscrow"
  /\ last.err = "ok"
  /\ last.id = 1
  /\ getTotalEscrows = 2
  /\ Escrow(0).state \in Terminal
  /\ Escrow(1).state = "Created"

\* ----------------------------------------------------------------- C19
\* C19: no step changes the borrower, lender, rentalAmount, securityDeposit,
\* startTime, endTime, createdAt or itemDescription of an existing agreement.
C19_FieldsImmutable ==
  [][\A id \in Existing :
       /\ escrows'[id + 1].borrower = escrows[id + 1].borrower
       /\ escrows'[id + 1].lender = escrows[id + 1].lender
       /\ escrows'[id + 1].rentalAmount = escrows[id + 1].rentalAmount
       /\ escrows'[id + 1].securityDeposit = escrows[id + 1].securityDeposit
       /\ escrows'[id + 1].startTime = escrows[id + 1].startTime
       /\ escrows'[id + 1].endTime = escrows[id + 1].endTime
       /\ escrows'[id + 1].createdAt = escrows[id + 1].createdAt
       /\ escrows'[id + 1].itemDescription = escrows[id + 1].itemDescription]_vars

\* an agreement created at time 0 has been deposited, activated, disputed and
\* refunded at later times and still carries the data it was created with
C19_Witness ==
  \E id \in Existing :
    /\ Escrow(id).state = "Refunded"
    /\ now > Escrow(id).endTime
    /\ Escrow(id).createdAt = 0
    /\ Escrow(id).startTime = 0
    /\ Escrow(id).endTime = MIN_RENTAL_DURATION
    /\ Escrow(id).rentalAmount = 1000000
    /\ Escrow(id).securityDeposit = 500000
    /\ Escrow(id).itemDescription = "Test item"

\* ----------------------------------------------------------------- C20
\* C20: platformFeePercentage is always between 0 and 1000; updatePlatformFee
\* succeeds exactly for the owner with a value of at most 1000 and then sets
\* the rate to that value; a rejected update, and every other operation,
\* leaves the rate as it was.
C20_FeeBounded ==
  /\ [](platformFeePercentage >= 0 /\ platformFeePercentage <= 1000)
  /\ [][/\ \A caller \in Users, newFeePercentage \in FeeValues :
             (/\ Idle
              /\ last'.op = "updatePlatformFee"
              /\ last'.caller = caller
              /\ last'.id = newFeePercentage) =>
                /\ last'.err = "ok" <=>
                     (caller = Owner /\ newFeePercentage <= 1000)
                /\ platformFeePercentage' =
                     IF last'.err = "ok" THEN newFeePercentage
                     ELSE platformFeePercentage
        /\ last'.op # "updatePlatformFee" =>
             platformFeePercentage' = platformFeePercentage]_vars

\* with the rate at its maximum, the owner's update to 1001 has just been
\* rejected
C20_Witness ==
  /\ last.op = "updatePlatformFee"
  /\ last.caller = Owner
  /\ last.id = 1001
  /\ last.err = "InvalidAmount"
  /\ platformFeePercentage = 1000

\* ----------------------------------------------------------------- C21
\* C21: a releaseToLender or a resolveDispute in the lender's favour charges
\* the fee at the platformFeePercentage in force when it executes, whatever
\* the rate was when the agreement was created or deposited: the fee pool
\* grows by floor(rentalAmount * current rate / 10000), and the lender is paid
\* rentalAmount less that fee, which is not negative.
C21_FeeAtCurrentRate ==
  [][\A id \in Existing :
       (/\ Idle
        /\ last'.op \in {"releaseToLender", "resolveDispute"}
        /\ last'.err = "ok"
        /\ last'.id = id
        /\ escrows'[id + 1].state = "Completed") =>
         LET e   == Escrow(id)
             fee == FloorFee(e.rentalAmount, platformFeePercentage)
             toLender == balance'[e.lender] - balance[e.lender]
         IN /\ platformFeePercentage' = platformFeePercentage
            /\ collectedFees' = collectedFees + fee
            /\ feeAccrued'[id + 1] = feeAccrued[id + 1] + fee
            /\ toLender = e.rentalAmount - fee
            /\ toLender >= 0]_vars

\* the test's agreement has just been paid out at the maximum rate, which the
\* owner set after deployment: 100_000 of fee instead of the 25_000 that the
\* initial rate gives
C21_Witness ==
  /\ last.op \in {"releaseToLender", "resolveDispute"}
  /\ last.err = "ok"
  /\ last.id \in Existing
  /\ Escrow(last.id).state = "Completed"
  /\ Escrow(last.id).rentalAmount = 1000000
  /\ platformFeePercentage = MaxFeePercentage
  /\ platformFeePercentage # InitialFeePercentage
  /\ feeAccrued[last.id + 1] = 100000
  /\ sent[last.id + 1][1] = <<Escrow(last.id).lender, 900000>>

\* ----------------------------------------------------------------- C22
\* C22: the fee computed for (amount, bps) is floor(amount * bps / 10000); it
\* is at least the fee of every smaller amount at the same rate and of the
\* same amount at every smaller rate; and for bps in 0 .. 1000 it lies between
\* 0 and amount.
C22_FeeFunction ==
  feeCalc.fee # -1 =>
    /\ feeCalc.fee * FeeDenominator <= feeCalc.amount * feeCalc.bps
    /\ feeCalc.amount * feeCalc.bps < (feeCalc.fee + 1) * FeeDenominator
    /\ \A a \in Amounts :
         a <= feeCalc.amount => PlatformFee(a, feeCalc.bps) <= feeCalc.fee
    /\ \A b \in BpsValues :
         b <= feeCalc.bps => PlatformFee(feeCalc.amount, b) <= feeCalc.fee
    /\ (feeCalc.bps \in 0 .. MaxFeePercentage) =>
         (0 <= feeCalc.fee /\ feeCalc.fee <= feeCalc.amount)

\* the fee of 10_001 at the maximum rate has been computed: 1_000, the
\* quotient 1_000.1 rounded down
C22_Witness ==
  /\ feeCalc.amount = 10001
  /\ feeCalc.bps = MaxFeePercentage
  /\ feeCalc.fee = 1000

\* ----------------------------------------------------------------- C23
\* C23 as stated: getUserEscrows asked about an address that has no
\* agreements answers EscrowNotFound.
C23_AsStated ==
  [][(/\ Idle
      /\ last'.op = "getUserEscrows"
      /\ userEscrows[last'.caller] = <<>>) =>
       last'.err = "EscrowNotFound"]_vars

\* C23 amended: getEscrow fails with EscrowNotFound exactly for the ids that
\* were never created; getUserEscrows never fails, and for an address that
\* has no agreements it returns the empty list; neither call changes any
\* state.
C23_Views ==
  [][/\ (Idle /\ last'.op = "getEscrow") =>
          /\ last'.err =
               IF last'.id \in Existing THEN "ok" ELSE "EscrowNotFound"
          /\ UNCHANGED <<now, sbtVars, ledgerVars, offLedger>>
     /\ (Idle /\ last'.op = "getUserEscrows") =>
          /\ last'.err = "ok"
          /\ last'.id = Len(userEscrows[last'.caller])
          /\ (\A id \in Existing :
                 /\ Escrow(id).borrower # last'.caller
                 /\ Escrow(id).lender # last'.caller)
               => last'.id = 0
          /\ UNCHANGED <<now, sbtVars, ledgerVars, offLedger>>]_vars

\* getEscrow has just been refused for an id that was never created, while
\* another agreement exists
C23_Witness ==
  /\ last.op = "getEscrow"
  /\ last.err = "EscrowNotFound"
  /\ last.id \notin Existing
  /\ escrowIdCounter > 0

\* ----------------------------------------------------------------- C24
PartyOps ==
  {"deposit", "activateRental", "releaseToLender", "raiseDispute",
   "cancelEscrow"}

\* what a party's call needs in order to go through, the caller's
\* verification not being part of it: the role, the state and the time
\* (deposits are offered with the exact total)
PartyCallDue(op, caller, id) ==
  /\ id \in Existing
  /\ Authorized(op, caller, id)
  /\ Escrow(id).state = RequiredState(op)
  /\ op = "releaseToLender" => now >= Escrow(id).endTime
  /\ op = "raiseDispute" => now <= Escrow(id).endTime + DISPUTE_TIMEOUT

\* C24: a call of deposit, activateRental, releaseToLender, raiseDispute or
\* cancelEscrow succeeds exactly when the caller's role, the agreement's state
\* and the time allow it, whether or not the caller (or the other party) is
\* still verified; only createEscrow is refused to an unverified caller or
\* lender.  (A release goes through unless a recipient refuses the transfer,
\* verified or not.)
C24_GateOnlyAtCreation ==
  [][/\ (Idle /\ last'.op \in PartyOps) =>
          IF PartyCallDue(last'.op, last'.caller, last'.id)
          THEN last'.err \in {"ok"} \cup
                 (IF last'.op = "releaseToLender" THEN {"TransferFailed"}
                  ELSE {})
          ELSE last'.err \notin {"ok", "TransferFailed"}
     /\ (Idle /\ last'.op = "createEscrow" /\ last'.err = "ok") =>
          (isVerified(TestBorrower) /\ isVerified(TestLender))]_vars

\* the lender, whose verification has been revoked like the borrower's, has
\* just been paid by releaseToLender
C24_Witness ==
  /\ last.op = "releaseToLender"
  /\ last.err = "ok"
  /\ last.id \in Existing
  /\ last.caller = Escrow(last.id).lender
  /\ ~isVerified(Escrow(last.id).lender)
  /\ ~isVerified(Escrow(last.id).borrower)
  /\ Escrow(last.id).state = "Completed"

\* ----------------------------------------------------------------- C25
\* C25 as stated: the owner of the ledger, who resolves disputes, is neither
\* the borrower nor the lender of any agreement.
C25_AsStated ==
  \A id \in Existing :
    /\ Escrow(id).borrower # Owner
    /\ Escrow(id).lender # Owner

\* ----------------------------------------------------------------- C26
\* C26: a token that is held is held by the address it was minted to, and a
\* step leaves it where it is or burns it; a token appears only as the fresh
\* token of a successful mintTo; transferFrom of a held token to a non-zero
\* address fails with TokenNotTransferable whoever calls it and whatever
\* from it names, no transferFrom succeeds at all, and approve and
\* setApprovalForAll always fail with TokenNotTransferable.
C26_NonTransferable ==
  /\ [](\A t \in TokenIds : owners[t] \in {Zero, tokenToUser[t]})
  /\ [][/\ \A t \in TokenIds :
            /\ owners[t] # Zero => owners'[t] \in {owners[t], Zero}
            /\ (owners[t] = Zero /\ owners'[t] # Zero) =>
                 /\ t = tokenIdCounter
                 /\ last' = Result("mintTo", Owner, t, "ok")
        /\ \A caller \in Users, from \in Users, to \in Users,
              tokenId \in TokenIds :
            (TransferFrom(caller, from, to, tokenId) /\ owners[tokenId] # Zero)
              => last'.err = "TokenNotTransferable"
        /\ (Idle /\ last'.op = "transferFrom") =>
             (last'.err # "ok" /\ UNCHANGED sbtVars)
        /\ (Idle /\ last'.op \in {"approve", "setApprovalForAll"}) =>
             (last'.err = "TokenNotTransferable" /\ UNCHANGED sbtVars)]_vars

\* the holder of a token has just tried to transfer it, as in
\* testCannotTransfer, and was refused; the token is still with the address
\* it was minted to
C26_Witness ==
  /\ last.op = "transferFrom"
  /\ last.err = "TokenNotTransferable"
  /\ owners[last.id] = last.caller
  /\ tokenToUser[last.id] = last.caller
  /\ balanceOf(last.caller) = 1

RECURSIVE PendingTotal(_)
PendingTotal(n) ==
  IF n = 0 THEN 0
  ELSE PendingTotal(n - 1) +
       (IF Escrow(n - 1).state \in {"Deposited", "Active", "Disputed"}
        THEN Total(n - 1) ELSE 0)

\* C29 as stated: in every reachable state, emergencyWithdraw included, the
\* ledger's balance covers collectedFees and the funds of every agreement
\* that is Deposited, Active or Disputed.
C29_AsStated ==
  balance[Ledger] >= collectedFees + PendingTotal(escrowIdCounter)

\* ----------------------------------------------------------------- C30
\* transactions i and j were both waiting at some moment
Concurrent(i, j) ==
  /\ mempool[i].sentAt < mempool[j].minedAt
  /\ mempool[j].sentAt < mempool[i].minedAt

\* the one of i and j that was executed first
FirstOf(i, j) == IF mempool[i].minedAt < mempool[j].minedAt THEN i ELSE j

\* i is the lender's releaseToLender and j a party's raiseDispute on the same
\* agreement; they were issued concurrently and have both been executed, at
\* times within [endTime, endTime + DISPUTE_TIMEOUT], the first of them on the
\* Active agreement and no other transaction on that agreement between them
Race(i, j) ==
  LET r == mempool[i]
      d == mempool[j]
  IN /\ r.op = "releaseToLender"
     /\ d.op = "raiseDispute"
     /\ r.id = d.id
     /\ r.id \in Existing
     /\ {i, j} \subseteq Mined
     /\ Concurrent(i, j)
     /\ r.caller = Escrow(r.id).lender
     /\ d.caller \in {Escrow(r.id).borrower, Escrow(r.id).lender}
     /\ mempool[FirstOf(i, j)].pre = "Active"
     /\ \A k \in {i, j} :
          /\ mempool[k].at >= Escrow(r.id).endTime
          /\ mempool[k].at <= Escrow(r.id).endTime + DISPUTE_TIMEOUT
     /\ \A k \in Mined \ {i, j} :
          mempool[k].id = r.id =>
            \/ mempool[k].minedAt < mempool[FirstOf(i, j)].minedAt
            \/ /\ mempool[k].minedAt > r.minedAt
               /\ mempool[k].minedAt > d.minedAt

C31_AsStated ==
  (answer.op = "createEscrow" /\ answer.error = "success") =>
    Escrow(answer.escrowId).borrower = answer.address

C33_DepositedEventuallySettled ==
  \A id \in Ids :
    (id \in Existing /\ Escrow(id).state = "Deposited")
      ~> (id \in Existing /\ Escrow(id).state \in {"Completed", "Refunded"})

\* the second agreement, created at a later time than the first, has been
\* deposited, activated, disputed and refunded by the arbiter
C33_Witness ==
  /\ escrowIdCounter = 2
  /\ Escrow(1).createdAt > Escrow(0).createdAt
  /\ Escrow(0).state = "Completed"
  /\ Escrow(1).state = "Refunded"
  /\ received[2] = Total(1)
  /\ Custody(1) = 0
  /\ now > Escrow(1).endTime

\* ------------------------------------------------------------------- C34
\* the ids created so far, in creation order
CreatedIds == [k \in 1 .. escrowIdCounter |-> k - 1]

IsParty(a, id) == Escrow(id).borrower = a \/ Escrow(id).lender = a

C35_LenderConfirmed ==
  /\ [](\A id \in Existing :
          /\ Escrow(id).lenderConfirmed <=>
               Escrow(id).state \in
                 {"Active", "Completed", "Disputed", "Refunded"}
          /\ ~Escrow(id).borrowerConfirmed)
  /\ [][\A id \in Existing :
          (/\ Idle
           /\ last'.op = "activateRental"
           /\ last'.id = id
           /\ last'.err = "ok") =>
             /\ last'.caller = Escrow(id).lender
             /\ Escrow(id).state = "Deposited"
             /\ ~Escrow(id).lenderConfirmed
             /\ escrows' = [escrows EXCEPT ![id + 1].state = "Active",
                                           ![id + 1].lenderConfirmed = TRUE]]_vars

\* the lender has just activated the second agreement, while the first one
\* was cancelled before any deposit and was never confirmed
C35_Witness ==
  /\ escrowIdCounter = 2
  /\ last = Result("activateRental", Escrow(1).lender, 1, "ok")
  /\ Escrow(1).state = "Active"
  /\ Escrow(1).lenderConfirmed
  /\ Escrow(0).state = "Cancelled"
  /\ ~Escrow(0).lenderConfirmed

\* ------------------------------------------------------------------- C36
LifecycleOps == PartyOps \cup {"resolveDispute"}

\* C36: while the ledger is paused createEscrow fails and no agreement is
\* created; deposit, activateRental, releaseToLender, raiseDispute,
\* resolveDispute and cancelEscrow are never refused for the pause, leave the
\* pause as it is, and go through exactly when the caller's role, the
\* agreement's state and the time allow it, paused or not (a payout can fail
\* with TransferFailed, paused or not); emergencyWithdraw succeeds only
\* while the ledger is paused and only for the owner.
C36_PauseStopsCreationOnly ==
  [][/\ (Idle /\ last'.op = "createEscrow" /\ paused) =>
          /\ last'.err # "ok"
          /\ UNCHANGED <<escrows, escrowIdCounter, userEscrows>>
     /\ escrowIdCounter' # escrowIdCounter => ~paused
     /\ (Idle /\ last'.op \in LifecycleOps) =>
          /\ last'.err \notin {"EnforcedPause", "ExpectedPause"}
          /\ paused' = paused
          /\ IF PartyCallDue(last'.op, last'.caller, last'.id)
             THEN last'.err \in {"ok"} \cup
                    (IF last'.op \in {"releaseToLender", "resolveDispute"}
                     THEN {"TransferFailed"} ELSE {})
             ELSE last'.err \notin {"ok", "TransferFailed"}
     /\ (Idle /\ last'.op = "emergencyWithdraw" /\ last'.err = "ok") =>
          (paused /\ last'.caller = Owner)]_vars

\* the ledger is paused and the borrower has just made the deposit for an
\* agreement created before the pause
C36_Witness ==
  /\ paused
  /\ last.op = "deposit"
  /\ last.err = "ok"
  /\ last.id \in Existing
  /\ last.caller = Escrow(last.id).borrower
  /\ Escrow(last.id).state = "Deposited"
  /\ Custody(last.id) = Total(last.id)

\* ------------------------------------------------------------------- C37
\* C37 as stated: in every state reached by mintTo and revokeVerification
\* calls, totalVerifiedUsers() is the number of addresses that are verified.
C37_AsStated ==
  totalVerifiedUsers = Cardinality({a \in Users : verifiedUsers[a]})

\* ------------------------------------------------------------------- C38
\* C38 as stated: a stored payment starts as 'pending', and once the server
\* has handled a callback about it it is no longer 'pending': it is
\* 'completed' or 'failed'.
C38_AsStated ==
  \A i \in DOMAIN payments, k \in DOMAIN callbacks :
    payments[i].checkout_request_id = callbacks[k].CheckoutRequestID =>
      payments[i].status \in {"completed", "failed"}

====
